---------------------------- MODULE Spec2Model ----------------------------
(***************************************************************************)
(* Release Track Ledger of src/release_tracker/release_tracker.py          *)
(* (class ReleaseTracker): per-track release logs, version identifiers,    *)
(* the finder, the pruner, the docker layer reconciler, add / delete /     *)
(* initialize and the track registry (load_tracks / serialize_tracks).     *)
(*                                                                         *)
(* Python values are modelled by what the code does with them:             *)
(*   - a str is a sequence of one-character strings;                       *)
(*   - a timestamp text in DateFormat is the one-character text of its     *)
(*     day number (DateText), parsed back by StrpTime;                     *)
(*   - a call returns a record [exc, val]: exc is "none" or the name of    *)
(*     the exception the call raises at that line.                         *)
(***************************************************************************)
EXTENDS Integers, Sequences, FiniteSets, TLC

VARIABLES
    tracks,        \* self.tracks: the registry, in dict insertion order
    log_files,     \* <storage>/<track>/release-log.json of every track that has one
    release_logs,  \* self._release_logs: the logs cached by this instance
    version_dirs,  \* <storage>/<track>/<version_id>/ directories and their manifest
    now,           \* the clock, in days
    result,        \* what the last call did: its arguments and what it returned or raised
    procs,         \* the tracker processes running add or delete step by step
    ci             \* what the ci/admin scripts act on: workflow runs, package versions, input lines

vars == <<tracks, log_files, release_logs, version_dirs, now, result, procs, ci>>

(***************************************************************************)
(* Bounds of the model.                                                    *)
(***************************************************************************)
MaxLogLen == 3
MaxDay == 2
MaxAge == 1

(***************************************************************************)
(* Strings.                                                                *)
(***************************************************************************)
\* The characters the model uses, in code point order (str comparison order).
Chars == <<" ", "0", "1", "2", "3", "4", "5", "6", "7", "8", "9", "_", "a", "b", "n", "s">>

DayChars == <<"0", "1", "2", "3", "4", "5", "6", "7", "8", "9">>

Rank(c) == CHOOSE i \in 1..Len(Chars) : Chars[i] = c

\* str.strip() on the two ends of a str.
RECURSIVE LStrip(_)
LStrip(s) ==
    IF s # <<>> /\ Head(s) = " " THEN LStrip(Tail(s)) ELSE s

RECURSIVE RStrip(_)
RStrip(s) ==
    IF s # <<>> /\ s[Len(s)] = " " THEN RStrip(SubSeq(s, 1, Len(s) - 1)) ELSE s

Strip(s) == RStrip(LStrip(s))

\* s.startswith(p), s.endswith(p)
StartsWith(s, p) ==
    Len(p) <= Len(s) /\ SubSeq(s, 1, Len(p)) = p

EndsWith(s, p) ==
    Len(p) <= Len(s) /\ SubSeq(s, Len(s) - Len(p) + 1, Len(s)) = p

\* `p in s` of two str: p occurs in s as a substring.
Contains(s, p) ==
    \E i \in 1..(Len(s) - Len(p) + 1) : SubSeq(s, i, i + Len(p) - 1) = p

\* a < b of two str: lexicographic by code point.
RECURSIVE StrLess(_, _)
StrLess(a, b) ==
    IF b = <<>> THEN FALSE
    ELSE IF a = <<>> THEN TRUE
    ELSE IF Head(a) # Head(b) THEN Rank(Head(a)) < Rank(Head(b))
    ELSE StrLess(Tail(a), Tail(b))

\* sorted(S) of a set of str.
RECURSIVE Sorted(_)
Sorted(S) ==
    IF S = {} THEN <<>>
    ELSE LET m == CHOOSE x \in S : \A y \in S : y = x \/ StrLess(x, y)
         IN  <<m>> \o Sorted(S \ {m})

Range(f) == {f[i] : i \in DOMAIN f}

\* The literal separator of a version identifier.
Sep == <<"_", "_">>

\* s.index("__"): the position of the first separator, 0 when there is none
\* (where Python raises ValueError).
IndexOfSep(s) ==
    IF Contains(s, Sep)
    THEN CHOOSE i \in 1..(Len(s) - 1) :
            /\ SubSeq(s, i, i + 1) = Sep
            /\ \A j \in 1..(i - 1) : SubSeq(s, j, j + 1) # Sep
    ELSE 0

\* s.split("__"): the parts between the non-overlapping separators, left to right.
RECURSIVE SplitSep(_)
SplitSep(s) ==
    LET i == IndexOfSep(s)
    IN  IF i = 0 THEN <<s>>
        ELSE <<SubSeq(s, 1, i - 1)>> \o SplitSep(SubSeq(s, i + 2, Len(s)))

(***************************************************************************)
(* Timestamps: DateFormat texts and datetime values (day numbers).         *)
(***************************************************************************)
\* datetime.strftime(DateFormat): the text of a day.
DateText(d) == <<DayChars[d + 1]>>

IsDateText(s) == Len(s) = 1 /\ s[1] \in Range(DayChars)

\* datetime.strptime(s, DateFormat): the day of a text (ValueError when IsDateText fails).
StrpTime(s) == (CHOOSE i \in 1..Len(DayChars) : DayChars[i] = s[1]) - 1

(***************************************************************************)
(* Version Identity.                                                       *)
(***************************************************************************)
version_id(created_at, version) == Strip(created_at) \o Sep \o Strip(version)

EntryId(e) == version_id(e.created_at, e.version)

(***************************************************************************)
(* Calls: what a call returns or raises.                                   *)
(***************************************************************************)
Ok(v) == [exc |-> "none", val |-> v]

Raise(e) == [exc |-> e, val |-> <<>>]

Returned(r) == r.exc = "none"

\* None, and the empty str that `x or ""` turns it into.
None == <<>>


(***************************************************************************)
(* Track Registry values.                                                  *)
(***************************************************************************)
\* PrunePolicy: the names of the members of the Enum.
PrunePolicies == {"LATEST", "UNIQUE"}

\* ReleaseTrack(name, prune_policy, prune_max_age)
ReleaseTrack(name, policy, max_age) ==
    [kind |-> "ReleaseTrack", name |-> name, prune_policy |-> policy, prune_max_age |-> max_age]

\* The set display { ReleaseTrack(...) } that load_tracks stores under a name.
SetOf(track) == [kind |-> "set", elems |-> {track}]

\* One item of the registry dict (a dict keeps its insertion order).
Item(name, cfg) == [name |-> name, cfg |-> cfg]

Keys(registry) == {registry[i].name : i \in DOMAIN registry}

\* self.tracks[track], for a track among the keys.
Lookup(registry, track) ==
    registry[CHOOSE i \in DOMAIN registry : registry[i].name = track].cfg

(***************************************************************************)
(* Track Registry: load_tracks / serialize_tracks.                         *)
(***************************************************************************)
\* What yaml.safe_load gives and serialize_tracks builds: a dict with its keys
\* in order (the manifest is {"tracks": [...]}), or a list of track dicts.  A
\* track dict is a function on some of "name", "prune-policy", "prune-max-age".
YamlDict(keys, track_list) == [kind |-> "dict", keys |-> keys, tracks |-> track_list]

YamlList(track_list) == [kind |-> "list", items |-> track_list]

Manifest(track_list) == YamlDict(<<"tracks">>, track_list)

\* str.upper() and str.lower() on the policy texts the model uses.
Upper(s) ==
    CASE s \in {"latest", "Latest", "LATEST"} -> "LATEST"
      [] s \in {"unique", "Unique", "UNIQUE"} -> "UNIQUE"
      [] OTHER -> "NEWEST"

Lower(s) ==
    CASE s \in {"latest", "Latest", "LATEST"} -> "latest"
      [] s \in {"unique", "Unique", "UNIQUE"} -> "unique"
      [] OTHER -> "newest"

Get(d, key, default) == IF key \in DOMAIN d THEN d[key] ELSE default

\* registry[name] = value of a dict: a new key goes last, a known key keeps its place.
Store(registry, name, value) ==
    IF name \in Keys(registry)
    THEN [i \in DOMAIN registry |->
            IF registry[i].name = name THEN Item(name, value) ELSE registry[i]]
    ELSE Append(registry, Item(name, value))

\* The comprehension of load_tracks with t.get("name") and a default policy
\* for an unknown one: an entry without name is left out, nothing raises.
RECURSIVE LoadItemsLenient(_, _, _)
LoadItemsLenient(items, i, registry) ==
    IF i > Len(items) THEN Ok(registry)
    ELSE LET t == items[i] IN
         IF "name" \notin DOMAIN t THEN LoadItemsLenient(items, i + 1, registry)
         ELSE LET named == Upper(Get(t, "prune-policy", "unique"))
                  policy == IF named \in PrunePolicies THEN named ELSE "UNIQUE"
              IN  LoadItemsLenient(items, i + 1,
                     Store(registry, t["name"],
                           SetOf(ReleaseTrack(t["name"], policy, Get(t, "prune-max-age", 0)))))

\* The dict comprehension of load_tracks from the i-th track dict on.
RECURSIVE LoadItems(_, _, _)
LoadItems(items, i, registry) ==
    IF i > Len(items) THEN Ok(registry)
    ELSE LET t == items[i] IN
         IF "name" \notin DOMAIN t THEN Raise("KeyError")
         ELSE LET policy == Upper(Get(t, "prune-policy", "unique")) IN
         IF policy \notin PrunePolicies THEN Raise("KeyError")
         ELSE LoadItems(items, i + 1,
                Store(registry, t["name"],
                      SetOf(ReleaseTrack(t["name"], policy, Get(t, "prune-max-age", 0)))))

\* load_tracks(tracks): `for t in tracks` over a dict yields its keys, and a key
\* is a str, which t["name"] cannot index; over a list it yields the track dicts.
load_tracks(value) ==
    IF value.kind = "dict"
    THEN IF value.keys = <<>> THEN Ok(<<>>) ELSE Raise("TypeError")
    ELSE LoadItems(value.items, 1, <<>>)

\* The dict serialize_tracks builds for one ReleaseTrack.
TrackDict(t) ==
    ("name" :> t.name) @@ ("prune-policy" :> Lower(t.prune_policy))
        @@ ("prune-max-age" :> t.prune_max_age)

\* serialize_tracks(tracks): sorted() reads t.name of every value; a set has none.
serialize_tracks(registry) ==
    IF \E i \in DOMAIN registry : registry[i].cfg.kind # "ReleaseTrack"
    THEN Raise("AttributeError")
    ELSE LET names == Sorted({registry[i].cfg.name : i \in DOMAIN registry})
             by_name(n) == (CHOOSE i \in DOMAIN registry : registry[i].cfg.name = n)
         IN  Ok(Manifest([k \in DOMAIN names |-> TrackDict(registry[by_name(names[k])].cfg)]))

\* Path.write_text(data): data that is not a str raises before the file is opened.
WriteText(data) ==
    IF data.kind # "str" THEN Raise("TypeError") ELSE Ok(data)

\* DefaultTracks as yaml.safe_load reads it: nightly / latest, stable / unique.
DefaultTracks ==
    Manifest(<<("name" :> <<"n">>) @@ ("prune-policy" :> "latest") @@ ("prune-max-age" :> 0),
               ("name" :> <<"s">>) @@ ("prune-policy" :> "unique") @@ ("prune-max-age" :> 0)>>)

\* A tracks text that strip() leaves empty.
EmptyText == [kind |-> "empty"]

\* The loop of lines 350-354: `track` is a key of self.tracks, a str, and
\* track.name of line 351 raises before line 354 writes the first log.
InitializeLogs(registry, logs) ==
    IF registry = <<>> THEN Ok(logs) ELSE Raise("AttributeError")

\* initialize(project_repo, tracks): what it raises or returns, the registry it
\* leaves in self.tracks and the log files it leaves in the store.  `value` is
\* what yaml.safe_load gives for the tracks text, EmptyText for a blank text.
initialize(value) ==
    LET loaded == load_tracks(IF value.kind = "empty" THEN DefaultTracks ELSE value) IN
    IF ~Returned(loaded)
    THEN [exc |-> loaded.exc, val |-> None, tracks |-> tracks, logs |-> log_files, manifest |-> None]
    ELSE LET serialized == serialize_tracks(loaded.val) IN
    IF ~Returned(serialized)
    THEN [exc |-> serialized.exc, val |-> None, tracks |-> loaded.val, logs |-> log_files,
          manifest |-> None]
    ELSE LET written == WriteText(serialized.val) IN
    IF ~Returned(written)
    THEN [exc |-> written.exc, val |-> None, tracks |-> loaded.val, logs |-> log_files,
          manifest |-> None]
    ELSE LET logs == InitializeLogs(loaded.val, log_files) IN
    IF ~Returned(logs)
    THEN [exc |-> logs.exc, val |-> None, tracks |-> loaded.val, logs |-> log_files,
          manifest |-> <<written.val>>]
    ELSE [exc |-> "none", val |-> None, tracks |-> loaded.val, logs |-> logs.val,
          manifest |-> <<written.val>>]

(***************************************************************************)
(* Release Entry Store: release_log / write_release_log.                   *)
(***************************************************************************)
\* release_log with `if release_log:` for `if release_log is not None:`: an
\* empty cached list is read from the file again.
ReleaseLogIfTruthy(cache, track) ==
    IF track \in DOMAIN cache /\ cache[track] # <<>> THEN Ok(cache[track])
    ELSE IF track \in DOMAIN log_files THEN Ok(log_files[track])
    ELSE Raise("FileNotFoundError")

\* release_log(track) on a cache: the cached list when there is one (an empty
\* list is not None), else the file's content, else read_text raises.
release_log(cache, track) ==
    IF track \in DOMAIN cache THEN Ok(cache[track])
    ELSE IF track \in DOMAIN log_files THEN Ok(log_files[track])
    ELSE Raise("FileNotFoundError")

\* self._release_logs after release_log(track).
CacheAfterRead(cache, track) ==
    IF track \notin DOMAIN cache /\ track \in DOMAIN log_files
    THEN (track :> log_files[track]) @@ cache
    ELSE cache

(***************************************************************************)
(* Pruner: find_prunable.                                                  *)
(***************************************************************************)
\* versions_by_id of _find_prunable_unique: identifier -> the list the loop
\* appends the identifier to, once per entry that has it.
VersionsById(log) ==
    [vid \in {EntryId(log[i]) : i \in DOMAIN log} |->
        [k \in 1..Cardinality({i \in DOMAIN log : EntryId(log[i]) = vid}) |-> vid]]

\* _find_prunable_unique: the comprehension iterates versions_by_id.items(), so
\* `versions` is the pair (identifier, list) and versions[:-1] is (identifier,).
FindPrunableUnique(log) ==
    LET by_id == VersionsById(log)
        items == {<<vid, by_id[vid]>> : vid \in DOMAIN by_id}
    IN  Sorted(UNION {Range(SubSeq(versions, 1, Len(versions) - 1)) : versions \in items})

\* FindPrunableLatest as a list comprehension without sorted({...}): the
\* identifiers of release_log[:-1] in log order, repeated ones repeated.
FindPrunableLatestInLogOrder(log) ==
    [i \in 1..(Len(log) - 1) |-> EntryId(log[i])]

\* FindPrunableLatest with the slice release_log[1:] in place of release_log[:-1].
FindPrunableLatestSkipFirst(log) ==
    Sorted({EntryId(log[i]) : i \in 2..Len(log)})

\* _find_prunable_latest: the identifiers of release_log[:-1].
FindPrunableLatest(log) ==
    Sorted({EntryId(log[i]) : i \in 1..(Len(log) - 1)})

\* track_cfg.prune_policy == "unique": a PrunePolicy member compared with a str.
\* Enum members compare by identity, so no member equals a str.
PolicyEqualsStr(policy, s) == FALSE

\* The loop of lines 478-485 over the sorted identifiers.
RECURSIVE OldEnough(_, _, _)
OldEnough(prunable, max_age, today) ==
    IF prunable = <<>> THEN <<>>
    ELSE LET vid == Head(prunable)
             v_date == StrpTime(SubSeq(vid, 1, IndexOfSep(vid) - 1))
             rest == OldEnough(Tail(prunable), max_age, today)
         IN  IF today - v_date < max_age THEN rest ELSE <<vid>> \o rest

\* Every identifier of the list starts with a DateFormat text before its first "__".
DatesParse(prunable) ==
    \A i \in DOMAIN prunable :
        /\ IndexOfSep(prunable[i]) > 0
        /\ IsDateText(SubSeq(prunable[i], 1, IndexOfSep(prunable[i]) - 1))

\* find_prunable(track): what it returns or raises.
find_prunable(cache, track) ==
    IF track \notin Keys(tracks) THEN Raise("KeyError")
    ELSE LET track_cfg == Lookup(tracks, track) IN
    IF track_cfg.kind # "ReleaseTrack" THEN Raise("AttributeError")
    ELSE LET log == release_log(cache, track) IN
    IF ~Returned(log) THEN log
    ELSE LET prunable == IF PolicyEqualsStr(track_cfg.prune_policy, "unique")
                         THEN FindPrunableUnique(log.val)
                         ELSE FindPrunableLatest(log.val) IN
    IF track_cfg.prune_max_age > 0
    THEN IF DatesParse(prunable)
         THEN Ok(OldEnough(prunable, track_cfg.prune_max_age, now))
         ELSE Raise("ValueError")
    ELSE Ok(prunable)

\* self._release_logs after find_prunable(track): the log is read once the
\* registry lookups of lines 469-470 have passed.
CacheAfterFindPrunable(cache, track) ==
    IF track \in Keys(tracks) /\ Lookup(tracks, track).kind = "ReleaseTrack"
    THEN CacheAfterRead(cache, track)
    ELSE cache


(***************************************************************************)
(* Layer Reconciler: find_prunable_docker_layers.                          *)
(***************************************************************************)
\* docker_manifests_f.exists() for <track_dir>/<version_id>/docker-manifests.json
HasManifest(track, vid) ==
    <<track, vid>> \in DOMAIN version_dirs /\ version_dirs[<<track, vid>>].manifest

\* _load_layers(track_dir, version_id): the keys of the manifest's "layers".
\* Without the file, log.debug formats two "{}" with one argument: IndexError.
LoadLayers(track, vid) ==
    IF HasManifest(track, vid) THEN Ok(version_dirs[<<track, vid>>].layers)
    ELSE Raise("IndexError")

\* LoadLayersOneArg with the call repaired to look the version up in the track
\* directories.
LoadLayersAnyTrack(vid) ==
    Ok(UNION {version_dirs[d].layers : d \in {x \in DOMAIN version_dirs : x[2] = vid}})

\* _load_layers(version_id) of line 529: one positional argument is missing.
LoadLayersOneArg(vid) == Raise("TypeError")

\* The loop of lines 501-506 from the i-th track of the registry on: the
\* non-empty find_prunable results by track, in registry order, and the cache.
RECURSIVE CollectPrunable(_, _, _)
CollectPrunable(i, cache, acc) ==
    IF i > Len(tracks) THEN [exc |-> "none", cache |-> cache, val |-> acc]
    ELSE LET track == tracks[i].name
             r == find_prunable(cache, track)
             after == CacheAfterFindPrunable(cache, track)
         IN  IF ~Returned(r) THEN [exc |-> r.exc, cache |-> after, val |-> acc]
             ELSE CollectPrunable(i + 1, after,
                    IF r.val = <<>> THEN acc
                    ELSE Append(acc, [track |-> track, versions |-> r.val]))

\* `version_id not in prunable_versions` of line 520: prunable_versions is the
\* dict keyed by track name, so the test is on its keys.
NotInPrunableVersions(vid, prunable_versions) ==
    vid \notin {prunable_versions[i].track : i \in DOMAIN prunable_versions}

\* The entries the loop of lines 512-524 inspects: those of the tracks of
\* prunable_versions, as (track, identifier) pairs.
InspectedEntries(cache, prunable_versions) ==
    UNION {{<<prunable_versions[i].track, EntryId(e)>> :
                e \in Range(cache[prunable_versions[i].track])} :
           i \in DOMAIN prunable_versions}

\* find_prunable_docker_layers with line 520 testing the identifier against
\* its own track's prunable list and line 529 loading the layers from the
\* track directories.
FindPrunableDockerLayersPerTrack ==
    LET collected == CollectPrunable(1, release_logs, <<>>) IN
    IF collected.exc # "none" THEN Raise(collected.exc)
    ELSE LET prunable_versions == collected.val
             inspected == InspectedEntries(collected.cache, prunable_versions)
             own(track) == UNION {Range(prunable_versions[i].versions) :
                                    i \in {j \in DOMAIN prunable_versions :
                                             prunable_versions[j].track = track}} IN
    IF \E x \in inspected : ~Returned(LoadLayers(x[1], x[2])) THEN Raise("IndexError")
    ELSE LET docker == {x \in inspected : LoadLayers(x[1], x[2]).val # {}}
             unprunable == {x \in docker : x[2] \notin own(x[1])}
             unprunable_layers == UNION {LoadLayers(x[1], x[2]).val : x \in unprunable}
             unprunable_docker_versions == {x[2] : x \in unprunable}
             prunable_docker_versions == {x[2] : x \in docker \ unprunable}
             prunable_layers ==
                {layer \in UNION {LoadLayersAnyTrack(vid).val : vid \in prunable_docker_versions} :
                    layer \notin unprunable_layers} IN
    IF tracks = <<>> THEN Raise("UnboundLocalError")
    ELSE Ok([prunable_release_ids |-> prunable_docker_versions,
             prunable_layer_digests |-> prunable_layers,
             retained_release_ids |-> unprunable_docker_versions,
             retained_layer_digests |-> unprunable_layers])

\* find_prunable_docker_layers(): what it returns or raises.
find_prunable_docker_layers ==
    LET collected == CollectPrunable(1, release_logs, <<>>) IN
    IF collected.exc # "none" THEN Raise(collected.exc)
    ELSE LET prunable_versions == collected.val
             inspected == InspectedEntries(collected.cache, prunable_versions) IN
    IF \E x \in inspected : ~Returned(LoadLayers(x[1], x[2])) THEN Raise("IndexError")
    ELSE LET docker == {x \in inspected : LoadLayers(x[1], x[2]).val # {}}
             unprunable == {x \in docker : NotInPrunableVersions(x[2], prunable_versions)}
             unprunable_layers == UNION {LoadLayers(x[1], x[2]).val : x \in unprunable}
             unprunable_docker_versions == {x[2] : x \in unprunable}
             prunable_docker_versions == {x[2] : x \in docker \ unprunable} IN
    IF \E vid \in prunable_docker_versions : ~Returned(LoadLayersOneArg(vid))
    THEN Raise("TypeError")
    ELSE LET prunable_layers ==
                {layer \in UNION {LoadLayersOneArg(vid).val : vid \in prunable_docker_versions} :
                    layer \notin unprunable_layers} IN
    IF tracks = <<>> THEN Raise("UnboundLocalError")
    ELSE Ok([prunable_release_ids |-> prunable_docker_versions,
             prunable_layer_digests |-> prunable_layers,
             retained_release_ids |-> unprunable_docker_versions,
             retained_layer_digests |-> unprunable_layers])

(***************************************************************************)
(* Finder: find.                                                           *)
(***************************************************************************)
\* A selector: the version, created_at, match_re and entries arguments.  An
\* omitted argument is None; `x or ""` makes None and "" the same empty str.
Selector(version, created_at, match_re, entries) ==
    [version |-> version, created_at |-> created_at, match_re |-> match_re, entries |-> entries]

\* The ascending sequence of a set of indices (a comprehension over enumerate).
RECURSIVE Ascending(_)
Ascending(S) ==
    IF S = {} THEN <<>>
    ELSE LET m == CHOOSE x \in S : \A y \in S : x <= y
         IN  <<m>> \o Ascending(S \ {m})

\* re.compile(p).match(s) for a pattern of literal characters: the pattern
\* matches at the start of s.
ReMatch(p, s) == StartsWith(s, p)

\* find's selection with `release["version"] == version_suffix` for the
\* endswith test of line 592.
FindIndicesExactVersion(log, sel) ==
    LET match_re == Strip(sel.match_re)
        entries == Strip(sel.entries)
    IN  IF entries # <<>>
        THEN Ok({i \in DOMAIN log : Contains(entries, EntryId(log[i]))})
        ELSE IF match_re # <<>>
        THEN Ok({i \in DOMAIN log : ReMatch(Strip(match_re), EntryId(log[i]))})
        ELSE LET parts == SplitSep(version_id(Strip(sel.created_at), Strip(sel.version)))
             IN  IF Len(parts) # 2 THEN Raise("ValueError")
                 ELSE LET created_at == parts[1]
                          version_suffix == parts[2]
                      IN  Ok({i \in DOMAIN log :
                                /\ log[i].version = version_suffix
                                /\ (created_at = <<>> \/ log[i].created_at = created_at)})

\* The indices (from 1) of the entries find selects, or the exception of line 588.
FindIndices(log, sel) ==
    LET match_re == Strip(sel.match_re)
        entries == Strip(sel.entries)
    IN  IF entries # <<>>
        THEN Ok({i \in DOMAIN log : Contains(entries, EntryId(log[i]))})
        ELSE IF match_re # <<>>
        THEN Ok({i \in DOMAIN log : ReMatch(Strip(match_re), EntryId(log[i]))})
        ELSE LET parts == SplitSep(version_id(Strip(sel.created_at), Strip(sel.version)))
             IN  IF Len(parts) # 2 THEN Raise("ValueError")
                 ELSE LET created_at == parts[1]
                          version_suffix == parts[2]
                      IN  Ok({i \in DOMAIN log :
                                /\ EndsWith(log[i].version, version_suffix)
                                /\ (created_at = <<>> \/ log[i].created_at = created_at)})

\* find(track, ...): the (index, entry) pairs, or with versions_only the
\* (index, identifier) pairs, in log order; indices count from 0.
find(cache, track, sel, versions_only) ==
    LET log == release_log(cache, track) IN
    IF ~Returned(log) THEN log
    ELSE LET found == FindIndices(log.val, sel) IN
    IF ~Returned(found) THEN found
    ELSE LET idx == Ascending(found.val)
         IN  Ok([k \in DOMAIN idx |->
                    <<idx[k] - 1,
                      IF versions_only THEN EntryId(log.val[idx[k]]) ELSE log.val[idx[k]]>>])

(***************************************************************************)
(* Mutator: add / delete.                                                  *)
(***************************************************************************)
DockerManifestsFile == "docker-manifests.json"

\* What a call did to the store besides what it returned: the track's log as
\* written (wrote = TRUE), the version directories, and whether git_commit ran
\* its commands.
Effect(r, wrote, log, dirs, git) ==
    [exc |-> r.exc, val |-> r.val, wrote |-> wrote, log |-> log, dirs |-> dirs, git |-> git]

\* list.pop(j) for 0 <= j < len.
Pop(log, j) == SubSeq(log, 1, j) \o SubSeq(log, j + 2, Len(log))

\* The loop of lines 629-636 with release_log.pop(i) for release_log.pop(i - popped).
RECURSIVE PopLoopNoShift(_, _)
PopLoopNoShift(log, candidates) ==
    IF candidates = <<>> THEN log
    ELSE LET j == Head(candidates)[1]
         IN  PopLoopNoShift(IF j < Len(log) THEN Pop(log, j) ELSE log, Tail(candidates))

\* The pops of the loop of lines 629-636: release_log.pop(i - popped), popped += 1.
RECURSIVE PopLoopFrom(_, _, _)
PopLoopFrom(log, candidates, popped) ==
    IF candidates = <<>> THEN log
    ELSE PopLoopFrom(Pop(log, Head(candidates)[1] - popped), Tail(candidates), popped + 1)

PopLoop(log, candidates) == PopLoopFrom(log, candidates, 0)

\* git_commit(clone_dir, message, push=push) as delete calls it: untracked is
\* left at None and commit() iterates it before it runs any command.
GitCommitOfDelete == Raise("TypeError")

\* delete without the `raise RuntimeError("nothing changed")` of line 649.
DeleteNoError(cache, track, sel, commit) ==
    LET log == release_log(cache, track) IN
    IF ~Returned(log) THEN Effect(log, FALSE, <<>>, version_dirs, FALSE)
    ELSE LET candidates == find(cache, track, sel, TRUE) IN
    IF ~Returned(candidates) THEN Effect(candidates, FALSE, log.val, version_dirs, FALSE)
    ELSE LET left == PopLoop(log.val, candidates.val)
             removed == {<<track, candidates.val[k][2]>> : k \in DOMAIN candidates.val}
             dirs == [d \in DOMAIN version_dirs \ removed |-> version_dirs[d]]
             popped == Len(candidates.val)
         IN  IF popped > 0 /\ commit
             THEN Effect(GitCommitOfDelete, TRUE, left, dirs, FALSE)
             ELSE Effect(candidates, TRUE, left, dirs, FALSE)

\* delete(track, ...): what it returns or raises and what it leaves behind.
delete(cache, track, sel, commit) ==
    LET log == release_log(cache, track) IN
    IF ~Returned(log) THEN Effect(log, FALSE, <<>>, version_dirs, FALSE)
    ELSE LET candidates == find(cache, track, sel, TRUE) IN
    IF ~Returned(candidates) THEN Effect(candidates, FALSE, log.val, version_dirs, FALSE)
    ELSE LET left == PopLoop(log.val, candidates.val)
             removed == {<<track, candidates.val[k][2]>> : k \in DOMAIN candidates.val}
             dirs == [d \in DOMAIN version_dirs \ removed |-> version_dirs[d]]
             popped == Len(candidates.val)
         IN  IF popped > 0 /\ commit
             THEN Effect(GitCommitOfDelete, TRUE, left, dirs, FALSE)
             ELSE IF commit
             THEN Effect(Raise("RuntimeError"), TRUE, left, dirs, FALSE)
             ELSE Effect(candidates, TRUE, left, dirs, FALSE)

\* add with release_log.insert(0, version_entry) for release_log.append(version_entry).
AddFront(cache, track, version, created_at, layers, commit) ==
    LET log == release_log(cache, track) IN
    IF ~Returned(log) THEN Effect(log, FALSE, <<>>, version_dirs, FALSE)
    ELSE IF Strip(created_at) # <<>>
    THEN IF IsDateText(Strip(created_at))
         THEN Effect(Raise("AttributeError"), FALSE, log.val, version_dirs, FALSE)
         ELSE Effect(Raise("ValueError"), FALSE, log.val, version_dirs, FALSE)
    ELSE LET stamp == DateText(now)
             vid == version_id(stamp, version)
             version_files == IF layers = None THEN <<>>
                              ELSE <<[dir |-> vid, name |-> DockerManifestsFile]>>
             dirs == IF layers = None THEN version_dirs
                     ELSE (<<track, vid>> :> [manifest |-> TRUE, layers |-> layers[1]])
                            @@ version_dirs
             version_entry == [created_at |-> stamp, files |-> version_files, version |-> version]
         IN  Effect(Ok(version_entry), TRUE, <<version_entry>> \o log.val, dirs, commit)

\* add(track, version, created_at, files): what it returns or raises and what
\* it leaves behind.  A given created_at is parsed into a datetime (line 375),
\* which version_id then strips (line 289): a datetime has no strip.  `layers`
\* is None or the layer keys of a docker-manifests.json given as the one file.
add(cache, track, version, created_at, layers, commit) ==
    LET log == release_log(cache, track) IN
    IF ~Returned(log) THEN Effect(log, FALSE, <<>>, version_dirs, FALSE)
    ELSE IF Strip(created_at) # <<>>
    THEN IF IsDateText(Strip(created_at))
         THEN Effect(Raise("AttributeError"), FALSE, log.val, version_dirs, FALSE)
         ELSE Effect(Raise("ValueError"), FALSE, log.val, version_dirs, FALSE)
    ELSE LET stamp == DateText(now)
             vid == version_id(stamp, version)
             version_files == IF layers = None THEN <<>>
                              ELSE <<[dir |-> vid, name |-> DockerManifestsFile]>>
             dirs == IF layers = None THEN version_dirs
                     ELSE (<<track, vid>> :> [manifest |-> TRUE, layers |-> layers[1]])
                            @@ version_dirs
             version_entry == [created_at |-> stamp, files |-> version_files, version |-> version]
         IN  Effect(Ok(version_entry), TRUE, Append(log.val, version_entry), dirs, commit)

(***************************************************************************)
(* The inputs the specifications draw from.                                *)
(***************************************************************************)
TrackN == <<"n">>

TrackS == <<"s">>

Versions == {<<"a">>, <<"b">>}

DateTexts == {DateText(d) : d \in 0..MaxDay}

\* Release entries without files.
PlainEntries ==
    {[created_at |-> c, version |-> v, files |-> <<>>] : c \in DateTexts, v \in Versions}

LogsOf(entries, n) == UNION {[1..k -> entries] : k \in 0..n}

\* A registry value for a name: a ReleaseTrack as the annotation of self.tracks
\* declares it, or the one-element set load_tracks builds.
TrackValues(name) ==
    LET recs == {ReleaseTrack(name, p, a) : p \in PrunePolicies, a \in 0..MaxAge}
    IN  recs \cup {SetOf(t) : t \in recs}

NoCall == [op |-> "none", track |-> <<>>, args |-> <<>>, exc |-> "none", val |-> <<>>]

Call(op, track, args, r) ==
    [op |-> op, track |-> track, args |-> args, exc |-> r.exc, val |-> r.val]

(***************************************************************************)
(* SpecPrune: find_prunable applied to one track's registry value and log. *)
(***************************************************************************)
InitPrune ==
    /\ tracks \in {<<Item(TrackN, c)>> : c \in TrackValues(TrackN)}
    /\ log_files \in {(TrackN :> l) : l \in LogsOf(PlainEntries, MaxLogLen)}
    /\ release_logs = <<>>
    /\ version_dirs = <<>>
    /\ now = MaxDay
    /\ result = NoCall
    /\ procs = <<>>
    /\ ci = <<>>

FindPrunableCall ==
    \E track \in {TrackN, TrackS} :
        /\ result' = Call("find_prunable", track, <<>>, find_prunable(release_logs, track))
        /\ release_logs' = CacheAfterFindPrunable(release_logs, track)
        /\ UNCHANGED <<ci, procs, tracks, log_files, version_dirs, now>>

NextPrune == FindPrunableCall

SpecPrune == InitPrune /\ [][NextPrune]_vars

\* The track's registry value when find_prunable was called on a ReleaseTrack of
\* the registry whose log file exists.
PrunedTrack == Lookup(tracks, result.track)

PruneCase ==
    /\ result.op = "find_prunable"
    /\ result.track \in Keys(tracks)
    /\ PrunedTrack.kind = "ReleaseTrack"
    /\ result.track \in DOMAIN release_logs

PrunedLog == release_logs[result.track]

IdsOf(log, idx) == {EntryId(log[i]) : i \in idx}

\* The identifiers that more than one entry of the log has.
DuplicatedIds(log) ==
    {vid \in IdsOf(log, DOMAIN log) :
        Cardinality({i \in DOMAIN log : EntryId(log[i]) = vid}) > 1}

\* C4: for a track with policy LATEST and prune_max_age 0, find_prunable returns
\* exactly the identifiers of the log entries other than the last appended one,
\* and nothing for an empty or single-entry log.
C4_PruneLatest ==
    (PruneCase /\ PrunedTrack.prune_policy = "LATEST" /\ PrunedTrack.prune_max_age = 0)
    => /\ Returned(result)
       /\ Range(result.val) = IdsOf(PrunedLog, 1..(Len(PrunedLog) - 1))
       /\ Len(PrunedLog) <= 1 => result.val = <<>>

\* C4 witness: three entries with distinct identifiers; the first two are
\* returned and the last one is not.
C4_Witness ==
    /\ PruneCase /\ PrunedTrack.prune_policy = "LATEST" /\ PrunedTrack.prune_max_age = 0
    /\ Len(PrunedLog) = 3
    /\ Cardinality(IdsOf(PrunedLog, 1..3)) = 3
    /\ Returned(result)
    /\ Range(result.val) = {EntryId(PrunedLog[1]), EntryId(PrunedLog[2])}

\* C23: find_prunable returns its identifiers in strictly ascending order, none
\* repeated, for either policy and with or without an age cutoff; it leaves the
\* log file and the cached logs as they were (a log it reads is cached as the
\* file holds it), and a second call on the same track returns the same.
C23_PrunableSorted ==
    [][result'.op = "find_prunable"
       => /\ Returned(result')
             => \A i \in 1..(Len(result'.val) - 1) : StrLess(result'.val[i], result'.val[i + 1])
          /\ log_files' = log_files
          /\ \A t \in DOMAIN release_logs :
                t \in DOMAIN release_logs' /\ release_logs'[t] = release_logs[t]
          /\ \A t \in DOMAIN release_logs' : release_logs'[t] = log_files[t]
          /\ (result.op = "find_prunable" /\ result.track = result'.track)
             => result'.exc = result.exc /\ result'.val = result.val]_vars

\* C23 witness: a log whose first two entries are in descending order of
\* identifier and whose third repeats the first; both identifiers are returned
\* once, in ascending order.
C23_Witness ==
    /\ PruneCase
    /\ Returned(result)
    /\ Len(PrunedLog) >= 3
    /\ StrLess(EntryId(PrunedLog[2]), EntryId(PrunedLog[1]))
    /\ EntryId(PrunedLog[3]) = EntryId(PrunedLog[1])
    /\ result.val = <<EntryId(PrunedLog[2]), EntryId(PrunedLog[1])>>

\* C5: for a track with policy UNIQUE and prune_max_age 0, find_prunable returns
\* exactly the identifiers that more than one entry has; an identifier that
\* occurs once in the log is never returned.
C5_PruneUnique ==
    (PruneCase /\ PrunedTrack.prune_policy = "UNIQUE" /\ PrunedTrack.prune_max_age = 0)
    => /\ Returned(result)
       /\ Range(result.val) = DuplicatedIds(PrunedLog)

\* The identifiers the track's policy selects over the whole log.
PolicySelection(policy, log) ==
    IF policy = "UNIQUE" THEN DuplicatedIds(log) ELSE IdsOf(log, 1..(Len(log) - 1))

DayOfId(vid) == StrpTime(SubSeq(vid, 1, IndexOfSep(vid) - 1))

\* C6: with prune_max_age > 0 find_prunable returns exactly the identifiers the
\* policy selects over the whole log whose created_at is older than now minus
\* prune_max_age days; with prune_max_age 0 none is dropped because of age.
\* (An identifier created exactly prune_max_age days before now is left to
\* either side here: the statement is about the policy's output being filtered.)
C6_PruneAge ==
    PruneCase
    => LET selected == PolicySelection(PrunedTrack.prune_policy, PrunedLog)
           max_age == PrunedTrack.prune_max_age
       IN  /\ Returned(result)
           /\ Range(result.val) \subseteq selected
           /\ \A vid \in selected :
                /\ (max_age = 0 \/ DayOfId(vid) < now - max_age) => vid \in Range(result.val)
                /\ (max_age > 0 /\ DayOfId(vid) > now - max_age) => vid \notin Range(result.val)


(***************************************************************************)
(* SpecLayers: find_prunable_docker_layers applied to a registry, its      *)
(* tracks' logs and the docker manifests attached to their entries.        *)
(***************************************************************************)
MaxLayerLogLen == 2

\* A track whose name reads like a version identifier.
TrackV == version_id(DateText(0), <<"a">>)

Layers == {"D1", "D2"}

\* What a version directory holds: no manifest, or one with these layer keys.
ManifestChoices ==
    {[manifest |-> FALSE, layers |-> {}], [manifest |-> TRUE, layers |-> {}]}
        \cup {[manifest |-> TRUE, layers |-> {d}] : d \in Layers}

\* Entries created on day 0.
LayerEntries ==
    {[created_at |-> DateText(0), version |-> v, files |-> <<>>] : v \in Versions}

\* Registries of one or two tracks named TrackV and TrackN, in either order.
LayerRegistries ==
    LET vals(name) == {ReleaseTrack(name, p, 0) : p \in PrunePolicies}
        one == {<<Item(n, c)>> : n \in {TrackV}, c \in vals(TrackV)}
        two == {<<Item(TrackV, c), Item(TrackN, d)>> : c \in vals(TrackV), d \in vals(TrackN)}
                \cup {<<Item(TrackN, d), Item(TrackV, c)>> : c \in vals(TrackV), d \in vals(TrackN)}
        wrapped == {<<Item(TrackV, SetOf(c))>> : c \in vals(TrackV)}
    IN  {<<>>} \cup one \cup two \cup wrapped

\* The version directories of a store: one choice per identifier in a log.
DirsOf(logs) ==
    [UNION {{<<t, EntryId(e)>> : e \in Range(logs[t])} : t \in DOMAIN logs} -> ManifestChoices]

InitLayers ==
    /\ tracks \in LayerRegistries
    /\ log_files \in [{TrackV, TrackN} -> LogsOf(LayerEntries, MaxLayerLogLen)]
    /\ version_dirs \in DirsOf(log_files)
    /\ release_logs = <<>>
    /\ now = MaxDay
    /\ result = NoCall
    /\ procs = <<>>
    /\ ci = <<>>

FindPrunableDockerLayersCall ==
    /\ result' = Call("find_prunable_docker_layers", <<>>, <<>>, find_prunable_docker_layers)
    /\ release_logs' = CollectPrunable(1, release_logs, <<>>).cache
    /\ UNCHANGED <<ci, procs, tracks, log_files, version_dirs, now>>

NextLayers == FindPrunableDockerLayersCall

SpecLayers == InitLayers /\ [][NextLayers]_vars

LayersCase ==
    /\ result.op = "find_prunable_docker_layers"
    /\ Returned(result)

\* The find_prunable result of a track of the registry.
OwnPrunable(track) == Range(find_prunable(release_logs, track).val)

\* The release entries of the registry's tracks, as (track, identifier) pairs,
\* that carry a docker-manifests.json.
DockerEntries ==
    {x \in UNION {{<<t, vid>> : vid \in IdsOf(log_files[t], DOMAIN log_files[t])} : t \in Keys(tracks)} :
        HasManifest(x[1], x[2])}

LayersOf(x) == version_dirs[x].layers

\* A docker-carrying entry is retained when its identifier is not in its own
\* track's find_prunable result.
Retained(x) == x[2] \notin OwnPrunable(x[1])

\* C1: no layer digest of the returned prunable-layer set is referenced by the
\* docker manifest of a retained release entry, in any track.
C1_RetainedLayersKept ==
    LayersCase
    => \A x \in DockerEntries :
          Retained(x) => LayersOf(x) \cap result.val.prunable_layer_digests = {}

\* C1 witness: in one track a prunable and a retained release reference the
\* same layer, and the call returned without that layer in the prunable set.
C1_Witness ==
    /\ LayersCase
    /\ \E x \in DockerEntries, y \in DockerEntries :
          /\ x[1] = y[1]
          /\ ~Retained(x) /\ Retained(y)
          /\ \E d \in LayersOf(x) \cap LayersOf(y) : d \notin result.val.prunable_layer_digests

\* C2: the entries of every track are examined, also those of a track whose
\* find_prunable result is empty: their layers are in the returned retained-layer
\* set and not in the returned prunable-layer set.
C2_AllTracksExamined ==
    LayersCase
    => \A x \in DockerEntries :
          OwnPrunable(x[1]) = {}
          => /\ LayersOf(x) \subseteq result.val.retained_layer_digests
             /\ LayersOf(x) \cap result.val.prunable_layer_digests = {}

\* C3: a docker-carrying entry (one whose manifest lists layers) is classified
\* prunable exactly when its identifier is in its own track's find_prunable
\* result, and retained otherwise; the two returned identifier sets are these
\* groups. Stated for registries whose tracks all have a non-empty find_prunable
\* result, so that every track is inspected.
C3_Classification ==
    (LayersCase /\ \A t \in Keys(tracks) : OwnPrunable(t) # {})
    => LET docker == {x \in DockerEntries : LayersOf(x) # {}}
       IN  /\ result.val.prunable_release_ids = {x[2] : x \in {y \in docker : ~Retained(y)}}
           /\ result.val.retained_release_ids = {x[2] : x \in {y \in docker : Retained(y)}}

\* C28: the sets find_prunable_docker_layers returns are mutually exclusive:
\* no layer digest is in both the prunable and the retained layer set and no
\* version identifier is in both the prunable and the retained release-id set,
\* also when two tracks hold entries of one identifier of which one is
\* prunable and the other retained.
C28_SetsExclusive ==
    LayersCase
    => /\ result.val.prunable_layer_digests \cap result.val.retained_layer_digests = {}
       /\ result.val.prunable_release_ids \cap result.val.retained_release_ids = {}

\* C28 witness: the call returned for two tracks that both hold a
\* layer-carrying entry of one identifier, prunable in one track and retained
\* in the other, and the identifier is in a returned release-id set.
C28_Witness ==
    /\ LayersCase
    /\ \E x \in DockerEntries, y \in DockerEntries :
          /\ x[1] # y[1] /\ x[2] = y[2]
          /\ LayersOf(x) # {} /\ LayersOf(y) # {}
          /\ ~Retained(x) /\ Retained(y)
          /\ x[2] \in result.val.prunable_release_ids \cup result.val.retained_release_ids

(***************************************************************************)
(* SpecDelete: delete applied to one track's log.                          *)
(***************************************************************************)
MaxDeleteLogLen == 4

Entry(day, version) == [created_at |-> DateText(day), version |-> version, files |-> <<>>]

DeleteEntries == {Entry(0, <<"a">>), Entry(0, <<"b">>), Entry(1, <<"a">>)}

\* The text of several identifiers, one after the other.
IdList == version_id(DateText(0), <<"a">>) \o <<" ">> \o version_id(DateText(1), <<"a">>)

Selectors ==
    {Selector(<<"a">>, None, None, None),
     Selector(<<"b">>, DateText(0), None, None),
     Selector(<<" ", "a", " ">>, DateText(1), None, None),
     Selector(None, None, None, None),
     Selector(None, None, DateText(0), None),
     Selector(None, None, None, version_id(DateText(0), <<"b">>)),
     Selector(None, None, None, IdList)}

\* Every identifier of the logs has a version directory, or none has.
DirChoices(logs) ==
    {<<>>,
     [d \in UNION {{<<t, EntryId(e)>> : e \in Range(logs[t])} : t \in DOMAIN logs}
        |-> [manifest |-> FALSE, layers |-> {}]]}

InitDelete ==
    /\ tracks = <<>>
    /\ log_files \in {(TrackN :> l) : l \in LogsOf(DeleteEntries, MaxDeleteLogLen)}
    /\ version_dirs \in DirChoices(log_files)
    /\ release_logs = <<>>
    /\ now = 0
    /\ result = NoCall
    /\ procs = <<>>
    /\ ci = <<>>

\* self._release_logs after add or delete on a track: the cached list is the
\* one the call appended to or popped from.
CacheAfterEffect(cache, track, eff) ==
    IF eff.exc = "FileNotFoundError" THEN cache ELSE (track :> eff.log) @@ cache

\* write_release_log without the write_text of line 550: only the cache is set.
FilesKept(track, eff) == log_files

\* The log files after add or delete on a track (write_release_log).
FilesAfterEffect(track, eff) ==
    IF eff.wrote THEN (track :> eff.log) @@ log_files ELSE log_files

DeleteCall ==
    \E track \in {TrackN, TrackS}, sel \in Selectors, commit \in BOOLEAN :
        LET eff == delete(release_logs, track, sel, commit)
        IN  /\ result' = Call("delete", track, [sel |-> sel, commit |-> commit], eff)
            /\ release_logs' = CacheAfterEffect(release_logs, track, eff)
            /\ log_files' = FilesAfterEffect(track, eff)
            /\ version_dirs' = eff.dirs
            /\ UNCHANGED <<ci, procs, tracks, now>>

NextDelete == DeleteCall

SpecDelete == InitDelete /\ [][NextDelete]_vars

\* The entries of a log at the indices (from 1) outside a set, in log order.
Without(log, idx) ==
    LET keep == Ascending(DOMAIN log \ idx)
    IN  [k \in DOMAIN keep |-> log[keep[k]]]

\* C7: delete removes from the track's log exactly the entries at the indices
\* find matched for the selector, for any number of matches, and leaves the
\* other entries in their original order, in the log file and in the cache.
C7_DeleteExactlyMatched ==
    [][LET track == result'.track
           matched == find(release_logs, track, result'.args.sel, FALSE)
       IN  (result'.op = "delete" /\ Returned(matched))
           => LET before == release_log(release_logs, track).val
                  idx == {matched.val[k][1] + 1 : k \in DOMAIN matched.val}
              IN  /\ log_files'[track] = Without(before, idx)
                  /\ release_logs'[track] = Without(before, idx)]_vars

\* C7 witness: delete matched the indices 1 and 3, and the two entries left are
\* not among the matched ones.
C7_Witness ==
    /\ result.op = "delete"
    /\ Returned(result)
    /\ Len(result.val) = 2
    /\ result.val[1][1] = 1 /\ result.val[2][1] = 3
    /\ Len(log_files[result.track]) = 2
    /\ \A i \in 1..2 : EntryId(log_files[result.track][i]) \notin {result.val[1][2], result.val[2][2]}

\* C11: a delete whose selector matches no entry raises if and only if commit
\* (or push) was requested and otherwise returns the empty list; either way the
\* log's entries, in the file and in the cache, are unchanged and git_commit
\* runs no command.
C11_DeleteNothing ==
    [][LET track == result'.track
           sel == result'.args.sel
           commit == result'.args.commit
           matched == find(release_logs, track, sel, FALSE)
       IN  (result'.op = "delete" /\ Returned(matched) /\ matched.val = <<>>)
           => LET before == release_log(release_logs, track).val
              IN  /\ (result'.exc # "none") <=> commit
                  /\ ~commit => result'.val = <<>>
                  /\ log_files'[track] = before
                  /\ release_logs'[track] = before
                  /\ ~delete(release_logs, track, sel, commit).git]_vars

\* C11 witness: a delete with commit on a log with entries matched nothing and
\* raised, and the log still has its entries.
C11_Witness ==
    /\ result.op = "delete"
    /\ result.args.commit
    /\ result.exc = "RuntimeError"
    /\ Len(log_files[result.track]) > 0
    /\ release_logs[result.track] = log_files[result.track]

\* The selector of a call has entries, regex, version and created_at all
\* empty or omitted.
NoSelector(sel) ==
    /\ Strip(sel.entries) = <<>>
    /\ Strip(sel.match_re) = <<>>
    /\ Strip(sel.version) = <<>>
    /\ Strip(sel.created_at) = <<>>

\* C26: find with entries, regex, version and created_at all empty or omitted
\* returns every entry of the log, in log order, and delete with no selector
\* removes all entries of the track and rewrites the log as empty, in the
\* file and in the cache.
C26_NoSelectorDeletesAll ==
    [][LET track == result'.track
           sel == result'.args.sel
           log == release_log(release_logs, track)
       IN  (result'.op = "delete" /\ NoSelector(sel) /\ Returned(log))
           => /\ find(release_logs, track, sel, FALSE)
                   = Ok([k \in DOMAIN log.val |-> <<k - 1, log.val[k]>>])
              /\ log_files'[track] = <<>>
              /\ release_logs'[track] = <<>>]_vars

\* C26 witness: a delete with no selector returned all three entries of a log
\* as removed, and the log file is empty.
C26_Witness ==
    /\ result.op = "delete"
    /\ NoSelector(result.args.sel)
    /\ Returned(result)
    /\ Len(result.val) = 3
    /\ log_files[result.track] = <<>>
    /\ release_logs[result.track] = <<>>

(***************************************************************************)
(* SpecFind: find applied to one track's log with every kind of selector.  *)
(***************************************************************************)
MaxFindLogLen == 2

\* Entries whose versions are suffixes and prefixes of one another, and one
\* whose version add stored with a trailing blank.
FindEntries ==
    {Entry(0, <<"a">>), Entry(0, <<"a", "b">>), Entry(1, <<"b", "a">>), Entry(1, <<"a", " ">>)}

FindSelectors ==
    {Selector(<<"a">>, None, None, None),
     Selector(<<"a">>, DateText(0), None, None),
     Selector(None, None, None, None),
     Selector(None, DateText(1), None, None),
     Selector(<<"a", " ">>, None, None, None),
     Selector(<<"a">> \o Sep \o <<"b">>, None, None, None),
     Selector(None, None, version_id(DateText(0), <<"a">>), None),
     Selector(None, None, version_id(DateText(1), <<"b", "a">>), None),
     Selector(None, None, None, version_id(DateText(0), <<"a">>)),
     Selector(None, None, None, version_id(DateText(0), <<"a", "b">>)),
     Selector(None, None, None,
              version_id(DateText(0), <<"a">>) \o <<" ">> \o version_id(DateText(1), <<"b", "a">>))}

InitFind ==
    /\ tracks = <<>>
    /\ log_files \in {(TrackN :> l) : l \in LogsOf(FindEntries, MaxFindLogLen)}
    /\ version_dirs = <<>>
    /\ release_logs = <<>>
    /\ now = 0
    /\ result = NoCall
    /\ procs = <<>>
    /\ ci = <<>>

FindSelectorCall ==
    \E track \in {TrackN, TrackS}, sel \in FindSelectors, versions_only \in BOOLEAN :
        /\ result' = Call("find", track, [sel |-> sel, versions_only |-> versions_only],
                          find(release_logs, track, sel, versions_only))
        /\ release_logs' = CacheAfterRead(release_logs, track)
        /\ UNCHANGED <<ci, procs, tracks, log_files, version_dirs, now>>

NextFind == FindSelectorCall

SpecFind == InitFind /\ [][NextFind]_vars

\* A find of entries (not versions_only) on a track that has a log.
FindCase ==
    /\ result.op = "find"
    /\ ~result.args.versions_only
    /\ result.track \in DOMAIN log_files

FoundLog == log_files[result.track]

\* The pairs find is to return for a set of indices (from 1) of the log: each
\* entry with its original index (from 0), in log order.
PairsOf(log, idx) ==
    LET asc == Ascending(idx)
    IN  [k \in DOMAIN asc |-> <<asc[k] - 1, log[asc[k]]>>]

\* C12: find with a regex selector returns exactly the entries whose whole
\* version identifier is matched by the pattern (for a pattern of literal
\* characters: the identifier equals the pattern).
C12_RegexFullMatch ==
    (FindCase /\ Strip(result.args.sel.entries) = <<>> /\ Strip(result.args.sel.match_re) # <<>>)
    => /\ Returned(result)
       /\ result.val = PairsOf(FoundLog,
                               {i \in DOMAIN FoundLog :
                                   EntryId(FoundLog[i]) = Strip(result.args.sel.match_re)})

\* The identifiers listed in a text, separated by blanks.
RECURSIVE Tokens(_)
Tokens(s) ==
    LET t == LStrip(s) IN
    IF t = <<>> THEN {}
    ELSE LET blanks == {i \in DOMAIN t : t[i] = " "}
             stop == IF blanks = {} THEN Len(t) + 1
                     ELSE CHOOSE i \in blanks : \A j \in blanks : i <= j
         IN  {SubSeq(t, 1, stop - 1)} \cup Tokens(SubSeq(t, stop, Len(t)))

\* C13: find with an entries selector returns exactly the log entries whose
\* version identifier is one of the identifiers listed in the entries value.
C13_EntriesMembership ==
    (FindCase /\ Strip(result.args.sel.entries) # <<>>)
    => /\ Returned(result)
       /\ result.val = PairsOf(FoundLog,
                               {i \in DOMAIN FoundLog :
                                   EntryId(FoundLog[i]) \in Tokens(result.args.sel.entries)})

\* C14: with neither entries nor regex given, find returns exactly the entries
\* whose version field ends with the given version and, when created_at is
\* non-empty, whose created_at equals it; each pair carries the entry's
\* original index and the pairs are in log order.
C14_VersionSuffix ==
    (FindCase /\ Strip(result.args.sel.entries) = <<>> /\ Strip(result.args.sel.match_re) = <<>>)
    => /\ Returned(result)
       /\ result.val = PairsOf(FoundLog,
                               {i \in DOMAIN FoundLog :
                                   /\ EndsWith(FoundLog[i].version, result.args.sel.version)
                                   /\ \/ result.args.sel.created_at = <<>>
                                      \/ FoundLog[i].created_at = result.args.sel.created_at})

(***************************************************************************)
(* SpecAdd: add applied to the logs of two tracks.                         *)
(***************************************************************************)
MaxAddLogLen == 2

AddEntries == {Entry(0, v) : v \in Versions}

InitAdd ==
    /\ tracks = <<>>
    /\ log_files \in {(TrackN :> l) @@ (TrackS :> m) :
                        l \in LogsOf(AddEntries, 1), m \in LogsOf(AddEntries, 1)}
    /\ version_dirs = <<>>
    /\ release_logs = <<>>
    /\ now = 0
    /\ result = NoCall
    /\ procs = <<>>
    /\ ci = <<>>

AddEntryCall ==
    \E track \in {TrackN, TrackS}, version \in Versions, created_at \in {None, DateText(0)},
       layers \in {None, <<{"D1"}>>}, commit \in BOOLEAN :
        LET eff == add(release_logs, track, version, created_at, layers, commit)
        IN  /\ Len(eff.log) <= MaxAddLogLen
            /\ result' = Call("add", track,
                              [version |-> version, created_at |-> created_at, commit |-> commit], eff)
            /\ release_logs' = CacheAfterEffect(release_logs, track, eff)
            /\ log_files' = FilesAfterEffect(track, eff)
            /\ version_dirs' = eff.dirs
            /\ UNCHANGED <<ci, procs, tracks, now>>

NextAdd == AddEntryCall

SpecAdd == InitAdd /\ [][NextAdd]_vars

\* C15: add changes the track's log only by appending one entry at the end: an
\* add that returns leaves the log equal to the earlier log followed by the
\* returned entry, an add that raises leaves it as it was, and the logs of all
\* other tracks, in the files and in the cache, are unchanged.
C15_AddAppends ==
    [][LET track == result'.track
           before == release_log(release_logs, track)
       IN  (result'.op = "add" /\ Returned(before))
           => /\ Returned(result')
                 => /\ log_files'[track] = Append(before.val, result'.val)
                    /\ release_logs'[track] = Append(before.val, result'.val)
              /\ ~Returned(result')
                 => /\ log_files'[track] = log_files[track]
                    /\ release_logs'[track] = before.val
              /\ DOMAIN log_files' = DOMAIN log_files
              /\ \A t \in DOMAIN log_files \ {track} : log_files'[t] = log_files[t]
              /\ \A t \in DOMAIN release_logs \ {track} : release_logs'[t] = release_logs[t]]_vars

\* C15 witness: an add returned the new last entry of a two-entry log whose
\* first entry is another one, and the other track has a log with an entry.
C15_Witness ==
    /\ result.op = "add"
    /\ Returned(result)
    /\ Len(log_files[result.track]) = 2
    /\ log_files[result.track][2] = result.val
    /\ log_files[result.track][1] # result.val
    /\ \E t \in DOMAIN log_files \ {result.track} : Len(log_files[t]) > 0

(***************************************************************************)
(* SpecCache: one instance reading and rewriting a track's log while the   *)
(* log file is also rewritten from outside the instance.                   *)
(***************************************************************************)
MaxCacheLogLen == 2

CacheLogs == LogsOf(AddEntries, MaxCacheLogLen)

CacheSelectors ==
    {Selector(<<"a">>, None, None, None),
     Selector(<<"b">>, DateText(0), None, None)}

InitCache ==
    /\ tracks = <<>>
    /\ log_files \in {(TrackN :> l) : l \in CacheLogs}
    /\ version_dirs = <<>>
    /\ release_logs = <<>>
    /\ now = 0
    /\ result = NoCall
    /\ procs = <<>>
    /\ ci = <<>>

ReleaseLogCall ==
    \E track \in {TrackN, TrackS} :
        /\ result' = Call("release_log", track, <<>>, release_log(release_logs, track))
        /\ release_logs' = CacheAfterRead(release_logs, track)
        /\ UNCHANGED <<ci, procs, tracks, log_files, version_dirs, now>>

WriteReleaseLogCall ==
    \E track \in {TrackN}, log \in CacheLogs :
        /\ result' = Call("write_release_log", track, [release_log |-> log], Ok(None))
        /\ log_files' = (track :> log) @@ log_files
        /\ release_logs' = (track :> log) @@ release_logs
        /\ UNCHANGED <<ci, procs, tracks, version_dirs, now>>

CacheAddCall ==
    \E track \in {TrackN, TrackS}, version \in Versions, commit \in BOOLEAN :
        LET eff == add(release_logs, track, version, None, None, commit)
        IN  /\ Len(eff.log) <= MaxCacheLogLen
            /\ result' = Call("add", track,
                              [version |-> version, created_at |-> None, commit |-> commit], eff)
            /\ release_logs' = CacheAfterEffect(release_logs, track, eff)
            /\ log_files' = FilesAfterEffect(track, eff)
            /\ version_dirs' = eff.dirs
            /\ UNCHANGED <<ci, procs, tracks, now>>

CacheDeleteCall ==
    \E track \in {TrackN, TrackS}, sel \in CacheSelectors, commit \in BOOLEAN :
        LET eff == delete(release_logs, track, sel, commit)
        IN  /\ result' = Call("delete", track, [sel |-> sel, commit |-> commit], eff)
            /\ release_logs' = CacheAfterEffect(release_logs, track, eff)
            /\ log_files' = FilesAfterEffect(track, eff)
            /\ version_dirs' = eff.dirs
            /\ UNCHANGED <<ci, procs, tracks, now>>

\* The log file is rewritten by something other than this instance.
OutsideWrite ==
    \E log \in CacheLogs :
        /\ log_files' = (TrackN :> log) @@ log_files
        /\ UNCHANGED <<ci, procs, tracks, release_logs, version_dirs, now, result>>

NextCache ==
    ReleaseLogCall \/ WriteReleaseLogCall \/ CacheAddCall \/ CacheDeleteCall \/ OutsideWrite

SpecCache == InitCache /\ [][NextCache]_vars

\* C16: once a track's log is cached, release_log(track) returns the cached
\* sequence (also an empty one) whatever the file holds, the cache entry is
\* never dropped, and it changes only in a step of this instance's own add,
\* delete or write_release_log on that track.
C16_ReadOnce ==
    [][\A t \in DOMAIN release_logs :
          /\ t \in DOMAIN release_logs'
          /\ (result'.op = "release_log" /\ result'.track = t)
             => Returned(result') /\ result'.val = release_logs[t]
          /\ release_logs'[t] # release_logs[t]
             => /\ result'.op \in {"add", "delete", "write_release_log"}
                /\ result'.track = t]_vars

\* C16 witness: a read returned the cached empty log while the file, rewritten
\* from outside, holds an entry.
C16_Witness ==
    /\ result.op = "release_log"
    /\ Returned(result)
    /\ result.val = <<>>
    /\ release_logs[result.track] = <<>>
    /\ log_files[result.track] # <<>>

(***************************************************************************)
(* SpecFault: add and delete on one track when write_text of the log file  *)
(* may fail.                                                               *)
(***************************************************************************)
\* How release_log_f.write_text(...) of write_release_log ends: it writes the
\* text, or raises OSError when it opens the file (the content is kept), or
\* raises OSError after open(..., "w") has truncated the file.
WriteFaults == {"none", "open", "write"}

\* A log file left truncated or partly written: not a JSON list any more.
TornFile == <<[torn |-> TRUE]>>

\* The call reached write_release_log and write_text raised.
WriteFailed(eff, fault) == eff.wrote /\ fault # "none"

\* What the call returns or raises under a fault of its write_text.
ResultUnderFault(eff, fault) ==
    IF WriteFailed(eff, fault) THEN Raise("OSError") ELSE [exc |-> eff.exc, val |-> eff.val]

\* The log files after add or delete whose write_text ended in `fault`.
FilesAfterFault(track, eff, fault) ==
    IF ~WriteFailed(eff, fault) THEN FilesAfterEffect(track, eff)
    ELSE IF fault = "open" THEN log_files
    ELSE (track :> TornFile) @@ log_files

InitFault ==
    /\ tracks = <<>>
    /\ log_files \in {(TrackN :> l) : l \in LogsOf(AddEntries, 1)}
    /\ version_dirs = <<>>
    /\ release_logs = <<>>
    /\ now = 0
    /\ result = NoCall
    /\ procs = <<>>
    /\ ci = <<>>

\* add: the entry is appended to the cached list (line 389) before
\* write_release_log is called (line 390).
FaultyAddCall ==
    \E track \in {TrackN}, version \in Versions, fault \in WriteFaults :
        LET eff == add(release_logs, track, version, None, None, FALSE)
        IN  /\ Len(eff.log) <= MaxAddLogLen
            /\ result' = Call("add", track, [version |-> version, fault |-> fault],
                              ResultUnderFault(eff, fault))
            /\ release_logs' = CacheAfterEffect(release_logs, track, eff)
            /\ log_files' = FilesAfterFault(track, eff, fault)
            /\ version_dirs' = eff.dirs
            /\ UNCHANGED <<ci, procs, tracks, now>>

\* delete: the entries are popped from the cached list (line 630) before
\* write_release_log is called (line 638).
FaultyDeleteCall ==
    \E track \in {TrackN}, sel \in CacheSelectors, fault \in WriteFaults :
        LET eff == delete(release_logs, track, sel, FALSE)
        IN  /\ result' = Call("delete", track, [sel |-> sel, fault |-> fault],
                              ResultUnderFault(eff, fault))
            /\ release_logs' = CacheAfterEffect(release_logs, track, eff)
            /\ log_files' = FilesAfterFault(track, eff, fault)
            /\ version_dirs' = eff.dirs
            /\ UNCHANGED <<ci, procs, tracks, now>>

NextFault == FaultyAddCall \/ FaultyDeleteCall

SpecFault == InitFault /\ [][NextFault]_vars

\* C17: when the rewrite of the log file fails during add or delete, the log
\* file has its previous content and the cached log of the track equals it.
C17_FailedWriteKeepsLog ==
    [][(result'.op \in {"add", "delete"} /\ result'.exc = "OSError"
        /\ result'.args.fault # "none")
       => /\ log_files'[result'.track] = log_files[result'.track]
          /\ release_logs'[result'.track] = log_files[result'.track]]_vars

(***************************************************************************)
(* SpecStore: add, find, delete and find_prunable on a storage that holds  *)
(* the directory and log of a track the registry does not name.            *)
(***************************************************************************)
\* The registry names the track s only; storage has the log and a version
\* directory of the track n.
InitStore ==
    /\ tracks = <<Item(TrackS, ReleaseTrack(TrackS, "LATEST", 0))>>
    /\ log_files = (TrackN :> <<Entry(0, <<"a">>)>>)
    /\ version_dirs = (<<TrackN, EntryId(Entry(0, <<"a">>))>> :> [manifest |-> FALSE, layers |-> {}])
    /\ release_logs = <<>>
    /\ now = 0
    /\ result = NoCall
    /\ procs = <<>>
    /\ ci = <<>>

NextStore == AddEntryCall \/ FindSelectorCall \/ DeleteCall \/ FindPrunableCall

SpecStore == InitStore /\ [][NextStore]_vars

\* C18: add, find, delete and find_prunable called with a track name that is
\* not in the registry raise, and change no log file, no cache entry and no
\* version directory.
C18_UnregisteredTrack ==
    [][(/\ result'.op \in {"add", "find", "delete", "find_prunable"}
        /\ result'.track \notin Keys(tracks))
       => /\ result'.exc # "none"
          /\ log_files' = log_files
          /\ release_logs' = release_logs
          /\ version_dirs' = version_dirs]_vars

(***************************************************************************)
(* Spec: one ReleaseTracker instance over a store; add, find, delete and   *)
(* initialize in any order while the clock advances.                       *)
(***************************************************************************)
MaxLedgerLen == 2
MaxTick == 1

\* tracks.yml as the constructor finds it: absent, or a list of track dicts
\* (a {"tracks": [...]} manifest makes load_tracks, and so the constructor, raise).
TracksYmlChoices ==
    {[kind |-> "absent"],
     YamlList(<<("name" :> TrackN) @@ ("prune-policy" :> "latest")>>)}

\* __init__: self.tracks.
Construct(tracks_yml) ==
    IF tracks_yml.kind = "absent" THEN Ok(<<>>) ELSE load_tracks(tracks_yml)

\* The tracks texts given to initialize.
TracksTexts ==
    {EmptyText,
     Manifest(<<("name" :> TrackN) @@ ("prune-policy" :> "latest") @@ ("prune-max-age" :> 0)>>),
     YamlList(<<("name" :> TrackS)>>),
     YamlList(<<>>)}

LedgerSelectors ==
    {Selector(<<"a">>, None, None, None),
     Selector(<<"b">>, DateText(0), None, None)}

Init ==
    /\ tracks \in {Construct(y).val : y \in {z \in TracksYmlChoices : Returned(Construct(z))}}
    /\ log_files \in {(TrackN :> l) : l \in LogsOf({Entry(0, <<"a">>)}, 1)}
    /\ version_dirs = <<>>
    /\ release_logs = <<>>
    /\ now = 0
    /\ result = NoCall
    /\ procs = <<>>
    /\ ci = <<>>

AddCall ==
    \E track \in {TrackN, TrackS}, version \in Versions, created_at \in {None, DateText(0)},
       layers \in {None, <<{"D1"}>>}, commit \in BOOLEAN :
        LET eff == add(release_logs, track, version, created_at, layers, commit)
        IN  /\ Len(eff.log) <= MaxLedgerLen
            /\ result' = Call("add", track,
                              [version |-> version, created_at |-> created_at, commit |-> commit], eff)
            /\ release_logs' = CacheAfterEffect(release_logs, track, eff)
            /\ log_files' = FilesAfterEffect(track, eff)
            /\ version_dirs' = eff.dirs
            /\ UNCHANGED <<ci, procs, tracks, now>>

FindCall ==
    \E track \in {TrackN, TrackS}, sel \in LedgerSelectors :
        /\ result' = Call("find", track, [sel |-> sel], find(release_logs, track, sel, FALSE))
        /\ release_logs' = CacheAfterRead(release_logs, track)
        /\ UNCHANGED <<ci, procs, tracks, log_files, version_dirs, now>>

LedgerDeleteCall ==
    \E track \in {TrackN, TrackS}, sel \in LedgerSelectors, commit \in BOOLEAN :
        LET eff == delete(release_logs, track, sel, commit)
        IN  /\ result' = Call("delete", track, [sel |-> sel, commit |-> commit], eff)
            /\ release_logs' = CacheAfterEffect(release_logs, track, eff)
            /\ log_files' = FilesAfterEffect(track, eff)
            /\ version_dirs' = eff.dirs
            /\ UNCHANGED <<ci, procs, tracks, now>>

InitializeCall ==
    \E value \in TracksTexts :
        LET eff == initialize(value)
        IN  /\ result' = Call("initialize", <<>>, [tracks |-> value], eff)
            /\ tracks' = eff.tracks
            /\ log_files' = eff.logs
            /\ UNCHANGED <<ci, procs, release_logs, version_dirs, now>>

Tick ==
    /\ now < MaxTick
    /\ now' = now + 1
    /\ UNCHANGED <<ci, procs, tracks, log_files, release_logs, version_dirs, result>>

Next == AddCall \/ FindCall \/ LedgerDeleteCall \/ InitializeCall \/ Tick

Spec == Init /\ [][Next]_vars

\* C27: after any sequence of initialize, add and delete operations on one
\* tracker instance (and of finds, which only read), for every track whose log
\* is cached in the instance the cached log equals the content of the track's
\* log file on disk.
C27_CacheEqualsFile ==
    \A track \in DOMAIN release_logs :
        /\ track \in DOMAIN log_files
        /\ release_logs[track] = log_files[track]

\* C27 witness: a completed delete removed an entry of a log that an add had
\* extended, and the cached log and the file both hold the entry that is left.
C27_Witness ==
    /\ result.op = "delete"
    /\ Returned(result)
    /\ Len(result.val) = 1
    /\ result.track \in DOMAIN release_logs
    /\ Len(release_logs[result.track]) = 1
    /\ release_logs[result.track] = log_files[result.track]

\* C8: for a track log with no entry of identifier version_id(T, v), after
\* add(track, v, created_at=T) completes, find(track, version=v, created_at=T)
\* returns exactly one (index, entry) pair, and its identifier is version_id(T, v).
C8_AddThenFind ==
    [][\A track \in {TrackN, TrackS}, v \in Versions, T \in DateTexts :
          LET before == release_log(release_logs, track)
          IN  (/\ result'.op = "add" /\ now' = now
               /\ result'.track = track
               /\ result'.args.version = v /\ result'.args.created_at = T
               /\ Returned(before)
               /\ \A i \in DOMAIN before.val : EntryId(before.val[i]) # version_id(T, v))
              => LET found == (find(release_logs, track, Selector(v, T, None, None), FALSE))'
                 IN  /\ Returned(found)
                     /\ Len(found.val) = 1
                     /\ EntryId(found.val[1][2]) = version_id(T, v)]_vars

\* The track names of a tracks text in the manifest structure.
ManifestNames(value) ==
    LET m == IF value.kind = "empty" THEN DefaultTracks ELSE value
    IN  {m.tracks[i]["name"] : i \in DOMAIN m.tracks}

\* C9: initialize leaves the entries of every existing release log unchanged and
\* writes an empty log for the tracks of the manifest that have no log file yet,
\* so running it again never erases release history.
C9_InitializeKeepsHistory ==
    [][(/\ result'.op = "initialize" /\ now' = now
        /\ result'.args.tracks.kind \in {"empty", "dict"})
       => /\ \A t \in DOMAIN log_files :
                t \in DOMAIN log_files' /\ log_files'[t] = log_files[t]
          /\ \A t \in ManifestNames(result'.args.tracks) \ DOMAIN log_files :
                t \in DOMAIN log_files' /\ log_files'[t] = <<>>]_vars

(***************************************************************************)
(* SpecRegistry: load_tracks and serialize_tracks applied to registries    *)
(* and manifests.                                                          *)
(***************************************************************************)
\* The valid registries: each name mapped to a ReleaseTrack of that name.
ValidRegistries ==
    LET vals(name) == {ReleaseTrack(name, p, a) : p \in PrunePolicies, a \in 0..MaxAge}
    IN  {<<>>}
        \cup {<<Item(n, c)>> : n \in {TrackN}, c \in vals(TrackN)}
        \cup {<<Item(n, c)>> : n \in {TrackS}, c \in vals(TrackS)}
        \cup {<<Item(TrackN, c), Item(TrackS, d)>> : c \in vals(TrackN), d \in vals(TrackS)}
        \cup {<<Item(TrackS, d), Item(TrackN, c)>> : c \in vals(TrackN), d \in vals(TrackS)}

\* Values given to load_tracks: manifests and bare lists of track dicts.
TrackDicts ==
    {("name" :> TrackN) @@ ("prune-policy" :> "latest") @@ ("prune-max-age" :> MaxAge),
     ("name" :> TrackS),
     ("prune-policy" :> "unique"),
     ("name" :> TrackN) @@ ("prune-policy" :> "newest")}

YamlValues ==
    LET lists == {<<>>} \cup {<<t>> : t \in TrackDicts}
    IN  {Manifest(l) : l \in lists} \cup {YamlList(l) : l \in lists}

InitRegistry ==
    /\ tracks \in ValidRegistries
    /\ log_files = <<>>
    /\ version_dirs = <<>>
    /\ release_logs = <<>>
    /\ now = 0
    /\ result = NoCall
    /\ procs = <<>>
    /\ ci = <<>>

\* load_tracks(serialize_tracks(self.tracks))
RoundTripCall ==
    LET serialized == serialize_tracks(tracks)
    IN  /\ result' = Call("round_trip", <<>>, <<>>,
                          IF Returned(serialized) THEN load_tracks(serialized.val) ELSE serialized)
        /\ UNCHANGED <<ci, procs, tracks, log_files, release_logs, version_dirs, now>>

SerializeTracksCall ==
    /\ result' = Call("serialize_tracks", <<>>, <<>>, serialize_tracks(tracks))
    /\ UNCHANGED <<ci, procs, tracks, log_files, release_logs, version_dirs, now>>

LoadTracksCall ==
    \E value \in YamlValues :
        /\ result' = Call("load_tracks", <<>>, [tracks |-> value], load_tracks(value))
        /\ UNCHANGED <<ci, procs, tracks, log_files, release_logs, version_dirs, now>>

\* initialize(project_repo, tracks) with the tracks text of a manifest or list.
RegistryInitializeCall ==
    \E value \in YamlValues :
        LET eff == initialize(value)
        IN  /\ result' = Call("initialize", <<>>, [tracks |-> value], eff)
            /\ tracks' = eff.tracks
            /\ log_files' = eff.logs
            /\ UNCHANGED <<ci, procs, release_logs, version_dirs, now>>

NextRegistry ==
    RoundTripCall \/ SerializeTracksCall \/ LoadTracksCall \/ RegistryInitializeCall

SpecRegistry == InitRegistry /\ [][NextRegistry]_vars

\* Two registries map the same names to the same values.
SameRegistry(a, b) ==
    /\ Keys(a) = Keys(b)
    /\ \A k \in Keys(a) : Lookup(a, k) = Lookup(b, k)

\* C10: load_tracks(serialize_tracks(R)) equals R for every valid registry R.
C10_RoundTrip ==
    result.op = "round_trip" => Returned(result) /\ SameRegistry(result.val, tracks)

\* The track dicts of a manifest or of a list of tracks.
TrackItems(value) == IF value.kind = "dict" THEN value.tracks ELSE value.items

\* C19: load_tracks maps the name of every track entry to one ReleaseTrack
\* record with that name, the entry's policy or UNIQUE when it gives none, and
\* the entry's max age or 0 when it gives none.
C19_LoadDefaults ==
    LET items == TrackItems(result.args.tracks)
    IN  (/\ result.op = "load_tracks"
         /\ \A i \in DOMAIN items :
               /\ "name" \in DOMAIN items[i]
               /\ Get(items[i], "prune-policy", "unique") \in {"latest", "unique"})
        => /\ Returned(result)
           /\ \A i \in DOMAIN items :
                 /\ items[i]["name"] \in Keys(result.val)
                 /\ Lookup(result.val, items[i]["name"])
                      = ReleaseTrack(items[i]["name"],
                                     IF Get(items[i], "prune-policy", "unique") = "latest"
                                     THEN "LATEST" ELSE "UNIQUE",
                                     Get(items[i], "prune-max-age", 0))

\* A manifest or list with a track entry that lacks name or whose prune-policy
\* is neither latest nor unique.
Malformed(value) ==
    \E i \in DOMAIN TrackItems(value) :
        \/ "name" \notin DOMAIN TrackItems(value)[i]
        \/ Get(TrackItems(value)[i], "prune-policy", "unique") \notin {"latest", "unique"}

\* C20: load_tracks raises and yields no registry when a track entry lacks name
\* or names a policy other than latest and unique; initialize with such a
\* manifest raises, writes no tracks.yml and no log file, and leaves the
\* registry as it was.
C20_MalformedManifest ==
    [][/\ (result'.op = "load_tracks" /\ Malformed(result'.args.tracks))
          => result'.exc # "none" /\ result'.val = None
       /\ (result'.op = "initialize" /\ Malformed(result'.args.tracks))
          => /\ result'.exc # "none"
             /\ initialize(result'.args.tracks).manifest = None
             /\ log_files' = log_files
             /\ tracks' = tracks]_vars

\* C20 witness: initialize was given a list with a malformed entry and raised
\* the KeyError of load_tracks, with no log file in the store.
C20_Witness ==
    /\ result.op = "initialize"
    /\ Malformed(result.args.tracks)
    /\ result.args.tracks.kind = "list"
    /\ result.exc = "KeyError"
    /\ log_files = <<>>

(***************************************************************************)
(* SpecProcs: two tracker processes, each running one add or delete on the *)
(* shared storage one step of the handler at a time.  A process is a fresh *)
(* ReleaseTracker: its cache is empty and the list it works on is its own. *)
(***************************************************************************)
Procs == {"p1", "p2"}

\* The steps of add (lines 371, 373-387, 389, 390, 394-402) and of delete
\* (lines 615, 618-624, 628-636, 638, 640-649), in the order of the code.
HandlerOrder == <<"read", "compute", "mutate", "write", "commit">>

\* The handler with git_commit called before write_release_log.
StepAfterCommitFirst(step) ==
    CASE step = "read" -> "compute"
      [] step = "compute" -> "mutate"
      [] step = "mutate" -> "commit"
      [] step = "commit" -> "write"
      [] OTHER -> "done"

\* The step that follows a step of the handler.
StepAfter(step) ==
    CASE step = "read" -> "compute"
      [] step = "compute" -> "mutate"
      [] step = "mutate" -> "write"
      [] step = "write" -> "commit"
      [] OTHER -> "done"

\* write_release_log with the entry appended to what the file holds now.
LogToWriteMerged(proc, on_disk) ==
    IF proc.op = "add" THEN Append(on_disk, proc.entry) ELSE proc.log

\* The list write_release_log writes: the one the handler read and changed,
\* whatever the file holds by now.
LogToWrite(proc, on_disk) == proc.log

\* A process about to run op(track, ...): nothing read, nothing done.
Invocation(op, track, version, created_at, sel, commit) ==
    [op |-> op, track |-> track, version |-> version, created_at |-> created_at,
     sel |-> sel, commit |-> commit,
     pc |-> "read", trail |-> <<>>, read |-> <<>>, log |-> <<>>, entry |-> <<>>,
     candidates |-> <<>>, wrote |-> FALSE, git |-> 0, exc |-> "none"]

Invocations ==
    {Invocation("add", TrackN, v, None, Selector(None, None, None, None), c) :
        v \in Versions, c \in BOOLEAN}
    \cup {Invocation("add", TrackN, <<"a">>, DateText(0), Selector(None, None, None, None), FALSE),
          Invocation("add", TrackS, <<"a">>, None, Selector(None, None, None, None), FALSE)}
    \cup {Invocation("delete", TrackN, None, None, sel, c) : sel \in CacheSelectors, c \in BOOLEAN}

InitProcs ==
    /\ tracks = <<>>
    /\ log_files \in {(TrackN :> l) : l \in LogsOf(AddEntries, 1)}
    /\ version_dirs = <<>>
    /\ release_logs = <<>>
    /\ now = 0
    /\ result = NoCall
    /\ procs \in [Procs -> Invocations]
    /\ ci = <<>>

\* The process after a step it completed, and after a step that raised.
Stepped(proc, fields) ==
    [f \in DOMAIN proc |->
        IF f = "pc" THEN StepAfter(proc.pc)
        ELSE IF f = "trail" THEN Append(proc.trail, proc.pc)
        ELSE IF f \in DOMAIN fields THEN fields[f]
        ELSE proc[f]]

Failed(proc, exc, fields) ==
    [f \in DOMAIN proc |->
        IF f = "pc" THEN "failed"
        ELSE IF f = "trail" THEN Append(proc.trail, proc.pc)
        ELSE IF f = "exc" THEN exc
        ELSE IF f \in DOMAIN fields THEN fields[f]
        ELSE proc[f]]

NoFields == [x \in {} |-> 0]

\* release_log(track) of a fresh process: the file is read (lines 542-545).
ReadLogStep(p) ==
    /\ procs[p].pc = "read"
    /\ LET r == release_log(<<>>, procs[p].track)
       IN  procs' = [procs EXCEPT ![p] =
                        IF Returned(r)
                        THEN Stepped(@, ("read" :> r.val) @@ ("log" :> r.val))
                        ELSE Failed(@, r.exc, NoFields)]
    /\ UNCHANGED <<ci, tracks, log_files, release_logs, version_dirs, now, result>>

\* add: the timestamp, the identifier and the entry (lines 373-387);
\* delete: the candidates of find on the list read (lines 618-624).
ComputeStep(p) ==
    /\ procs[p].pc = "compute"
    /\ LET proc == procs[p]
           found == find((proc.track :> proc.log), proc.track, proc.sel, TRUE)
       IN  procs' = [procs EXCEPT ![p] =
                        IF proc.op = "add"
                        THEN IF Strip(proc.created_at) # <<>>
                             THEN Failed(@, IF IsDateText(Strip(proc.created_at))
                                            THEN "AttributeError" ELSE "ValueError", NoFields)
                             ELSE Stepped(@, "entry" :> [created_at |-> DateText(now),
                                                         files |-> <<>>,
                                                         version |-> proc.version])
                        ELSE IF Returned(found)
                             THEN Stepped(@, "candidates" :> found.val)
                             ELSE Failed(@, found.exc, NoFields)]
    /\ UNCHANGED <<ci, tracks, log_files, release_logs, version_dirs, now, result>>

\* add: release_log.append(version_entry) (line 389);
\* delete: the pops and the rmtree of the version directories (lines 628-636).
MutateStep(p) ==
    /\ procs[p].pc = "mutate"
    /\ LET proc == procs[p]
           removed == {<<proc.track, proc.candidates[k][2]>> : k \in DOMAIN proc.candidates}
       IN  /\ procs' = [procs EXCEPT ![p] =
                           Stepped(@, "log" :> IF proc.op = "add"
                                               THEN Append(proc.log, proc.entry)
                                               ELSE PopLoop(proc.log, proc.candidates))]
           /\ version_dirs' = IF proc.op = "add" THEN version_dirs
                              ELSE [d \in DOMAIN version_dirs \ removed |-> version_dirs[d]]
    /\ UNCHANGED <<ci, tracks, log_files, release_logs, now, result>>

\* write_release_log(track, release_log) (lines 390 and 638).
WriteLogStep(p) ==
    /\ procs[p].pc = "write"
    /\ log_files' = (procs[p].track :> LogToWrite(procs[p], log_files[procs[p].track]))
                       @@ log_files
    /\ procs' = [procs EXCEPT ![p] = Stepped(@, "wrote" :> TRUE)]
    /\ UNCHANGED <<ci, tracks, release_logs, version_dirs, now, result>>

\* add: git_commit when commit or push (lines 394-402); delete: git_commit
\* when something was popped and commit or push, RuntimeError when nothing
\* was popped and commit or push (lines 640-649).
CommitStep(p) ==
    /\ procs[p].pc = "commit"
    /\ LET proc == procs[p]
       IN  procs' = [procs EXCEPT ![p] =
                        IF proc.op = "add"
                        THEN Stepped(@, "git" :> IF proc.commit THEN proc.git + 1 ELSE proc.git)
                        ELSE IF Len(proc.candidates) > 0 /\ proc.commit
                        THEN IF Returned(GitCommitOfDelete)
                             THEN Stepped(@, "git" :> proc.git + 1)
                             ELSE Failed(@, GitCommitOfDelete.exc, "git" :> proc.git + 1)
                        ELSE IF proc.commit THEN Failed(@, "RuntimeError", NoFields)
                        ELSE Stepped(@, NoFields)]
    /\ UNCHANGED <<ci, tracks, log_files, release_logs, version_dirs, now, result>>

NextProcs ==
    \E p \in Procs :
        ReadLogStep(p) \/ ComputeStep(p) \/ MutateStep(p) \/ WriteLogStep(p) \/ CommitStep(p)

SpecProcs == InitProcs /\ [][NextProcs]_vars

\* Both processes ran an add on the same track to its end.
BothAdded ==
    /\ \A p \in Procs : procs[p].op = "add" /\ procs[p].pc = "done"
    /\ procs["p1"].track = procs["p2"].track

\* C21: nothing keeps two processes apart on a track's log file: when both
\* read the log before either wrote it, the log file ends with only one of
\* the two added entries (what one process read, then its entry); otherwise
\* it holds both.
C21_LostUpdate ==
    BothAdded
    => LET a == procs["p1"]
           b == procs["p2"]
           on_disk == log_files[a.track]
       IN  IF a.read = b.read
           THEN on_disk \in {Append(a.read, a.entry), Append(b.read, b.entry)}
           ELSE on_disk \in {a.read \o <<a.entry, b.entry>>, b.read \o <<b.entry, a.entry>>}

\* C21 witness: both adds are done, both read the same log, and the entry the
\* first process added is not in the log file.
C21_Witness ==
    /\ BothAdded
    /\ procs["p1"].read = procs["p2"].read
    /\ procs["p1"].entry # procs["p2"].entry
    /\ procs["p1"].entry \notin Range(log_files[procs["p1"].track])
    /\ log_files[procs["p1"].track] = Append(procs["p2"].read, procs["p2"].entry)

IsPrefix(s, t) == Len(s) <= Len(t) /\ SubSeq(t, 1, Len(s)) = s

\* C22: within one add or delete the steps taken are, in this order, read log,
\* compute candidates, mutate in memory, write log, git commit; git_commit is
\* invoked at most once, only after the log file was rewritten and only when
\* commit or push was requested.
C22_StepOrder ==
    \A p \in DOMAIN procs :
        /\ IsPrefix(procs[p].trail, HandlerOrder)
        /\ procs[p].git \in {0, 1}
        /\ procs[p].git = 1
           => /\ procs[p].commit
              /\ procs[p].wrote
              /\ procs[p].trail = HandlerOrder

\* C22 witness: a delete with commit called git_commit after it had rewritten
\* the log, and an add with commit did so too.
C22_Witness ==
    \E p \in Procs, q \in Procs :
        /\ procs[p].op = "delete" /\ procs[p].git = 1 /\ procs[p].wrote
        /\ procs[q].op = "add" /\ procs[q].git = 1 /\ procs[q].pc = "done"
        /\ log_files[procs[q].track] # <<>>

(***************************************************************************)
(* SpecModuleDelete: the module-level delete of release_tracker/delete.py  *)
(* with the find of release_tracker/find.py, on one track's log file.      *)
(***************************************************************************)
MaxModuleLogLen == 3

\* An argument of the module-level functions: a str, or None when omitted
\* (find.py strips version and created_at without `or ""`).
Given(text) == [given |-> TRUE, text |-> text]

Omitted == [given |-> FALSE, text |-> <<>>]

ModuleSelector(version, created_at, match_re) ==
    [version |-> version, created_at |-> created_at, match_re |-> match_re]

\* find.py find(release_log, version, created_at, match_re): the (index,
\* release["version"]) pairs, indices from 0, in log order.
ModuleFind(log, sel) ==
    IF sel.match_re.given /\ sel.match_re.text # <<>>
    THEN LET idx == Ascending({i \in DOMAIN log :
                                 ReMatch(Strip(sel.match_re.text),
                                         log[i].created_at \o Sep \o log[i].version)})
         IN  Ok([k \in DOMAIN idx |-> <<idx[k] - 1, log[idx[k]].version>>])
    ELSE IF ~sel.version.given \/ ~sel.created_at.given THEN Raise("AttributeError")
    ELSE LET version_suffix == Sep \o Strip(sel.version.text)
             created_at == Strip(sel.created_at.text)
             idx == Ascending({i \in DOMAIN log :
                                 /\ EndsWith(log[i].version, version_suffix)
                                 /\ (created_at = <<>> \/ StartsWith(log[i].version, created_at))})
         IN  Ok([k \in DOMAIN idx |-> <<idx[k] - 1, log[idx[k]].version>>])

\* The loop of delete.py lines 40-45: release_log.pop(i) with the index find
\* gave, for every candidate; pop raises IndexError for an index past the end.
\* `done` counts the candidates whose directory was looked for.
RECURSIVE ModulePopLoop(_, _, _)
ModulePopLoop(log, candidates, done) ==
    IF candidates = <<>> THEN [exc |-> "none", val |-> log, done |-> done]
    ELSE LET i == Head(candidates)[1]
         IN  IF i >= Len(log) THEN [exc |-> "IndexError", val |-> log, done |-> done]
             ELSE ModulePopLoop(Pop(log, i), Tail(candidates), done + 1)

\* delete.py delete(tracks_dir, track, version, created_at, match_re): what it
\* raises, the log file it leaves and the version directories it leaves.
ModuleDelete(track, sel) ==
    IF track \notin DOMAIN log_files
    THEN [exc |-> "FileNotFoundError", val |-> None, wrote |-> FALSE, log |-> <<>>,
          dirs |-> version_dirs]
    ELSE LET read_log == log_files[track]
             candidates == ModuleFind(read_log, sel)
         IN  IF ~Returned(candidates)
             THEN [exc |-> candidates.exc, val |-> None, wrote |-> FALSE, log |-> read_log,
                   dirs |-> version_dirs]
             ELSE LET popped == ModulePopLoop(read_log, candidates.val, 0)
                      removed == {<<track, candidates.val[k][2]>> : k \in 1..popped.done}
                      dirs == [d \in DOMAIN version_dirs \ removed |-> version_dirs[d]]
                  IN  [exc |-> popped.exc, val |-> None, wrote |-> popped.exc = "none",
                       log |-> popped.val, dirs |-> dirs]

ModuleSelectors ==
    {ModuleSelector(Given(<<"a">>), Omitted, Given(DateText(0))),
     ModuleSelector(Given(<<"a">>), Omitted, Given(version_id(DateText(0), <<"a">>))),
     ModuleSelector(Given(<<"a">>), Omitted, Given(DateText(1))),
     ModuleSelector(Given(<<"a">>), Given(<<>>), Omitted),
     ModuleSelector(Given(<<"a">>), Omitted, Omitted)}

InitModuleDelete ==
    /\ tracks = <<>>
    /\ log_files \in {(TrackN :> l) : l \in LogsOf(DeleteEntries, MaxModuleLogLen)}
    /\ version_dirs = <<>>
    /\ release_logs = <<>>
    /\ now = 0
    /\ result = NoCall
    /\ procs = <<>>
    /\ ci = <<>>

ModuleDeleteCall ==
    \E track \in {TrackN, TrackS}, sel \in ModuleSelectors :
        LET eff == ModuleDelete(track, sel)
        IN  /\ result' = Call("module_delete", track, [sel |-> sel], eff)
            /\ log_files' = IF eff.wrote THEN (track :> eff.log) @@ log_files ELSE log_files
            /\ version_dirs' = eff.dirs
            /\ UNCHANGED <<ci, procs, tracks, release_logs, now>>

NextModuleDelete == ModuleDeleteCall

SpecModuleDelete == InitModuleDelete /\ [][NextModuleDelete]_vars

\* C24: the module-level delete removes from the log exactly the entries its
\* find matched, also when several match: it does not raise, no other entry
\* is removed and the entries left keep their order.
C24_ModuleDeleteExactlyMatched ==
    [][LET track == result'.track
           matched == ModuleFind(log_files[track], result'.args.sel)
       IN  (/\ result'.op = "module_delete"
            /\ track \in DOMAIN log_files
            /\ Returned(matched))
           => /\ Returned(result')
              /\ log_files'[track]
                   = Without(log_files[track],
                             {matched.val[k][1] + 1 : k \in DOMAIN matched.val})]_vars

(***************************************************************************)
(* SpecPruneDelete: find_prunable on a track, then delete with the         *)
(* returned identifiers as its entries argument.                           *)
(***************************************************************************)
MaxPruneDeleteLogLen == 3

\* The identifiers find_prunable returned as the one text delete takes for
\* its entries parameter.
RECURSIVE JoinIds(_)
JoinIds(ids) ==
    IF ids = <<>> THEN <<>>
    ELSE IF Len(ids) = 1 THEN Head(ids)
    ELSE Head(ids) \o <<" ">> \o JoinIds(Tail(ids))

InitPruneDelete ==
    /\ tracks \in {<<Item(TrackN, ReleaseTrack(TrackN, p, 0))>> : p \in PrunePolicies}
    /\ log_files \in {(TrackN :> l) : l \in LogsOf(PlainEntries, MaxPruneDeleteLogLen)}
    /\ release_logs = <<>>
    /\ version_dirs = <<>>
    /\ now = MaxDay
    /\ result = NoCall
    /\ procs = <<>>
    /\ ci = <<>>

DeletePrunableCall ==
    /\ result.op = "find_prunable"
    /\ Returned(result)
    /\ \E commit \in BOOLEAN :
        LET track == result.track
            sel == Selector(None, None, None, JoinIds(result.val))
            eff == delete(release_logs, track, sel, commit)
        IN  /\ result' = Call("delete", track, [sel |-> sel, commit |-> commit], eff)
            /\ release_logs' = CacheAfterEffect(release_logs, track, eff)
            /\ log_files' = FilesAfterEffect(track, eff)
            /\ version_dirs' = eff.dirs
            /\ UNCHANGED <<ci, procs, tracks, now>>

NextPruneDelete == FindPrunableCall \/ DeletePrunableCall

SpecPruneDelete == InitPruneDelete /\ [][NextPruneDelete]_vars

\* C25: for a non-empty log, after find_prunable(track) followed by
\* delete(track, entries = the returned identifiers) the most recently
\* appended entry is still in the log, for both policies and also when
\* several entries share one version identifier.
C25_PruneKeepsLast ==
    [][(/\ result.op = "find_prunable"
        /\ Returned(result)
        /\ result'.op = "delete"
        /\ log_files[result.track] # <<>>)
       => LET before == log_files[result.track]
              after == log_files'[result.track]
          IN  \E i \in DOMAIN after : after[i] = before[Len(before)]]_vars

(***************************************************************************)
(* SpecNightly: ci/admin nightly_cleanup on the workflow runs of a         *)
(* repository, in non-interactive mode.                                    *)
(***************************************************************************)
MaxRuns == 4

IncompleteStatuses == {"in_progress", "queued", "requested", "waiting", "pending"}

\* WorkflowRun.incomplete with "in_progress" missing from the list.
IncompleteNotStarted(run) == run.status \in {"queued", "requested", "waiting", "pending"}

\* WorkflowRun.incomplete
incomplete(run) == run.status \in IncompleteStatuses

\* The two filters nightly_cleanup gives to fzf.
ReleaseFilter == "'release !cleanup '[nightly, "

CleanupFilter == "'release 'cleanup '[nightly, "

\* The status and the outcome symbol the select query gives for a run.
RunStates ==
    {[status |-> "completed", outcome |-> "GOOD"],
     [status |-> "completed", outcome |-> "FAIL"],
     [status |-> "in_progress", outcome |-> "NULL"]}

\* What the line of a run reads like: a nightly release, a nightly release
\* cleanup job, or some other workflow.
RunJobs == {"release [nightly, ", "release cleanup [nightly, ", "ci"}

\* fzf --filter on the line of a run.
FzfMatches(filter, run) ==
    IF filter = "" THEN TRUE
    ELSE IF filter = ReleaseFilter THEN run.name = "release [nightly, "
    ELSE run.name = "release cleanup [nightly, "

\* The runs of a repository from their states and jobs in the order in which
\* they were created: ids and creation times follow that order.
RunsOf(listing) ==
    {[id |-> i, created_at |-> i, status |-> listing[i][1].status,
      outcome |-> listing[i][1].outcome, name |-> listing[i][2]] : i \in DOMAIN listing}

\* sorted(runs, key=lambda r: r.created_at)
RECURSIVE SortedRuns(_)
SortedRuns(S) ==
    IF S = {} THEN <<>>
    ELSE LET first == CHOOSE r \in S : \A q \in S : r.created_at <= q.created_at
         IN  <<first>> \o SortedRuns(S \ {first})

\* WorkflowRun.select(repo, filter, noninteractive=True) on the runs of the
\* repository, and with runs given.
select(runs, filter) == SortedRuns({r \in runs : FzfMatches(filter, r)})

\* _pick_preserved(runs) for a non-empty list.
PickPreserved(runs) ==
    LET latest == runs[Len(runs)]
        ok == {i \in DOMAIN runs : runs[i].outcome = "GOOD"}
    IN  IF latest.outcome # "GOOD" /\ ok # {}
        THEN <<latest, runs[CHOOSE i \in ok : \A j \in ok : j <= i]>>
        ELSE <<latest>>

\* The loop of lines 31-37: the runs appended to removed.
RECURSIVE RemovedOf(_, _)
RemovedOf(runs, preserved) ==
    IF runs = <<>> THEN <<>>
    ELSE LET run == Head(runs)
             rest == RemovedOf(Tail(runs), preserved)
         IN  IF run \in Range(preserved) \/ incomplete(run) THEN rest ELSE <<run>> \o rest

\* _scan_runs(run_type, filter, remove_all): preserved and removed after it.
ScanRuns(filter, remove_all, lists) ==
    LET runs == select(ci.runs, filter)
        preserved == IF runs # <<>> /\ ~remove_all
                     THEN lists.preserved \o PickPreserved(runs)
                     ELSE lists.preserved
    IN  [preserved |-> preserved, removed |-> lists.removed \o RemovedOf(runs, preserved)]

\* WorkflowRun.delete(repo, noop=noop, runs=removed): the runs it deleted.
WorkflowRunDelete(runs) == select(Range(runs), "")

\* [run for run in runs if run not in others]
RECURSIVE NotIn(_, _)
NotIn(runs, others) ==
    IF runs = <<>> THEN <<>>
    ELSE IF Head(runs) \in Range(others) THEN NotIn(Tail(runs), others)
    ELSE <<Head(runs)>> \o NotIn(Tail(runs), others)

\* WorkflowRun.action_result(removed, preserved)
action_result(removed, preserved) ==
    LET all == SortedRuns(Range(removed) \cup Range(preserved))
    IN  [k \in DOMAIN all |-> <<all[k] \in Range(removed), all[k]>>]

\* nightly_cleanup(repo, noop) with script_noninteractive() true: the list
\* given to WorkflowRun.delete (empty when delete is not called), what delete
\* returned, the preserved list and the return value.
nightly_cleanup ==
    LET releases == ScanRuns(ReleaseFilter, FALSE, [preserved |-> <<>>, removed |-> <<>>])
        cleanups == ScanRuns(CleanupFilter, TRUE, releases)
        removed == cleanups.removed
        actually_removed == IF removed # <<>> THEN WorkflowRunDelete(removed) ELSE <<>>
        preserved == cleanups.preserved \o NotIn(removed, actually_removed)
    IN  Ok([passed |-> removed, deleted |-> actually_removed, preserved |-> preserved,
            returned |-> action_result(removed, preserved)])

InitNightly ==
    /\ tracks = <<>>
    /\ log_files = <<>>
    /\ release_logs = <<>>
    /\ version_dirs = <<>>
    /\ now = 0
    /\ result = NoCall
    /\ procs = <<>>
    /\ \E n \in 0..MaxRuns : \E listing \in [1..n -> RunStates \X RunJobs] :
          ci = [runs |-> RunsOf(listing)]

NightlyCleanupCall ==
    \E noop \in BOOLEAN :
        LET r == nightly_cleanup
        IN  /\ result' = Call("nightly_cleanup", <<>>, [noop |-> noop], r)
            /\ ci' = IF noop THEN ci ELSE [ci EXCEPT !.runs = @ \ Range(r.val.deleted)]
            /\ UNCHANGED <<procs, tracks, log_files, release_logs, version_dirs, now>>

NextNightly == NightlyCleanupCall

SpecNightly == InitNightly /\ [][NextNightly]_vars

\* The runs a filter selects, and the most recent of a set of runs.
SelectedBy(filter) == {r \in ci.runs : FzfMatches(filter, r)}

MostRecent(S) == {r \in S : \A q \in S : q.created_at <= r.created_at}

\* The nightly release runs nightly_cleanup must keep: the most recent one and,
\* when its outcome is not GOOD, the most recent GOOD one.
KeptReleases ==
    LET releases == SelectedBy(ReleaseFilter)
        latest == MostRecent(releases)
    IN  latest \cup IF \E r \in latest : r.outcome # "GOOD"
                    THEN MostRecent({r \in releases : r.outcome = "GOOD"})
                    ELSE {}

\* C29: in non-interactive mode nightly_cleanup never passes to
\* WorkflowRun.delete the most recent nightly release run, nor (when that run's
\* outcome is not GOOD) the most recent GOOD nightly release run, nor a run of
\* incomplete status; every other selected run is passed exactly once.
C29_NightlyCleanupKeeps ==
    [][result'.op = "nightly_cleanup"
       => LET passed == result'.val.passed
              others == {r \in SelectedBy(ReleaseFilter) \cup SelectedBy(CleanupFilter) :
                            r \notin KeptReleases /\ r.status \notin IncompleteStatuses}
          IN  /\ Range(passed) \cap KeptReleases = {}
              /\ \A k \in DOMAIN passed : passed[k].status \notin IncompleteStatuses
              /\ Range(passed) = others
              /\ \A k \in DOMAIN passed, l \in DOMAIN passed : passed[k] = passed[l] => k = l]_vars

\* C29 witness: a dry run kept the most recent release run and the most recent
\* GOOD one, skipped a run in progress and passed another run to delete.
C29_Witness ==
    /\ result.op = "nightly_cleanup"
    /\ result.args.noop
    /\ result.val.passed # <<>>
    /\ Cardinality(KeptReleases) = 2
    /\ KeptReleases \subseteq Range(result.val.preserved)
    /\ \E r \in SelectedBy(ReleaseFilter) :
          r.status = "in_progress" /\ r \notin KeptReleases /\ r \notin Range(result.val.passed)

(***************************************************************************)
(* SpecPruneVersions: the prune-versions action of ci/admin, batching the  *)
(* prunable lines into filters for PackageVersion.delete.  A line is given *)
(* by the number of its characters; lines of different lengths name        *)
(* different versions, none a part of another's line.                      *)
(***************************************************************************)
MaxLines == 3

max_arg_len == 131072

\* A line of the input: `pad` blanks around `len` other characters.
InputLines ==
    {[pad |-> p, len |-> n] : p \in 0..1, n \in {0, 1, 65534, 131068, 131073}}

\* _prunable(): the stripped lines that are not empty.
RECURSIVE Prunable(_)
Prunable(lines) ==
    IF lines = <<>> THEN <<>>
    ELSE IF Head(lines).len = 0 THEN Prunable(Tail(lines))
    ELSE <<Head(lines).len>> \o Prunable(Tail(lines))

\* len(batch) for the batch of these lines: each line with its quote prefix,
\* joined with " | ".
RECURSIVE BatchLen(_)
BatchLen(batch) ==
    IF batch = <<>> THEN 0
    ELSE IF Len(batch) = 1 THEN 1 + Head(batch)
    ELSE 1 + Head(batch) + 3 + BatchLen(Tail(batch))

\* The loop of lines 143-154 from the i-th prunable line on: the batches
\* given to _prune, in order.
RECURSIVE PruneLoop(_, _, _, _)
PruneLoop(prunable, i, batch, pruned) ==
    IF i > Len(prunable)
    THEN IF batch # <<>> THEN Append(pruned, batch) ELSE pruned
    ELSE LET next_line == prunable[i]
             flush == BatchLen(batch) + next_line > max_arg_len
         IN  PruneLoop(prunable, i + 1,
                       Append(IF flush THEN <<>> ELSE batch, next_line),
                       IF flush THEN Append(pruned, batch) ELSE pruned)

\* PackageVersion.delete(package, org, filter, noop): the versions the filter
\* selects; the empty filter selects every version.
PackageVersionDelete(versions, batch) ==
    IF batch = <<>> THEN versions ELSE versions \cap Range(batch)

\* The prune-versions action: the filters given to PackageVersion.delete and
\* the versions deleted.
prune_versions(lines, versions) ==
    LET batches == PruneLoop(Prunable(lines), 1, <<>>, <<>>)
    IN  Ok([batches |-> batches,
            deleted |-> UNION {PackageVersionDelete(versions, batches[k]) : k \in DOMAIN batches}])

InitPruneVersions ==
    /\ tracks = <<>>
    /\ log_files = <<>>
    /\ release_logs = <<>>
    /\ version_dirs = <<>>
    /\ now = 0
    /\ result = NoCall
    /\ procs = <<>>
    /\ \E n \in 0..MaxLines : \E lines \in [1..n -> InputLines] :
          ci = [lines |-> lines, versions |-> {x.len : x \in {y \in InputLines : y.len > 0}}]

PruneVersionsCall ==
    \E noop \in BOOLEAN :
        LET r == prune_versions(ci.lines, ci.versions)
        IN  /\ result' = Call("prune-versions", <<>>, [noop |-> noop], r)
            /\ ci' = IF noop THEN ci ELSE [ci EXCEPT !.versions = @ \ r.val.deleted]
            /\ UNCHANGED <<procs, tracks, log_files, release_logs, version_dirs, now>>

NextPruneVersions == PruneVersionsCall

SpecPruneVersions == InitPruneVersions /\ [][NextPruneVersions]_vars

\* C30: every batch filter the prune-versions action passes to
\* PackageVersion.delete is non-empty and at most max_arg_len characters long,
\* separators and quote prefixes included.
C30_BatchWithinLimit ==
    result.op = "prune-versions"
    => \A k \in DOMAIN result.val.batches :
          /\ result.val.batches[k] # <<>>
          /\ BatchLen(result.val.batches[k]) <= max_arg_len

=============================================================================
